---- MODULE Spec2Model ----
(***************************************************************************)
(* The dialogue loop of Genie (src/unnamed/part_002, class DialogueLoop):  *)
(* one consumer (_loop) of two AsyncQueues, the readiness promise          *)
(* (_mgrPromise/_mgrResolve) that gates handleCommand, reset and stop, the *)
(* welcome routine (_showWelcome), and the command analysis                *)
(* (_analyzeCommand).                                                      *)
(*                                                                         *)
(* Every await of the source is a step boundary.  A call of a collaborator *)
(* (NLU, policy, execution agent, NLG, formatter, conversation sink)       *)
(* either returns or throws; which one is the environment's choice.        *)
(* Continuations of a resolved promise are microtasks: they run before any *)
(* step that waits for I/O, which the guard NoMicrotask expresses.         *)
(***************************************************************************)
EXTENDS Integers, Sequences, FiniteSets, TLC

\* ------------------------------------------------------------------ bounds
\* calls from outside in one run: pushCommand, dispatchNotify,
\* dispatchNotifyError, handleCommand, reset, stop
MaxCalls == 3
\* candidates in one NLU answer
MaxCand == 2

\* the calls of handleCommand, reset and stop that can be in flight together
Callers == {1, 2}

\* ------------------------------------------------------------ vocabulary
\* UserInput of type 'thingtalk' is named by its control intent ("program"
\* is any other parsed input); "nl" is UserInput of type 'command'.
ThingTalkCommands == {"stop", "nevermind", "wakeup", "debug", "failed", "program"}
\* A queue holds the classes of its items ("UserInput", "Notification",
\* "Error").  What a user input says is read first by _analyzeCommand, so a
\* queued input is kept as its class alone and its content is chosen where
\* it is analysed.

TERMINAL_STATES_EndOnly == {"sys_end"}
TERMINAL_STATES == {"sys_end", "sys_action_success"}
\* dialogue acts the policy may answer with: one that goes on and the
\* terminal ones
PolicyActs == {"sys_greet", "sys_end", "sys_action_success"}
\* the expect of a policy result: null, ValueCategory.Command, RawString
Expects == {"null", "Command", "RawString"}

\* what an NLU candidate's code is: code that does not parse or typecheck,
\* or code that parses to the named input
Codes == {"unparsable", "failed", "stop", "wakeup", "program"}
Scores == {"Infinity", "0.9", "0.5"}
NluCandidate == [code : Codes, score : Scores]

RECURSIVE SeqsUpTo(_, _)
SeqsUpTo(S, n) ==
    IF n = 0 THEN {<<>>}
    ELSE LET shorter == SeqsUpTo(S, n - 1)
         IN  shorter \cup {Append(s, x) : s \in {t \in shorter : Len(t) = n - 1}, x \in S}

CandidateLists == SeqsUpTo(NluCandidate, MaxCand)

\* the error a failed NLU call throws: e.code is a string, a number or absent
NluErrors ==
    { [t |-> "string", s |-> c, n |-> 0] : c \in {"EHOSTUNREACH", "ETIMEDOUT", "ECONNRESET"} }
    \cup { [t |-> "number", s |-> "", n |-> c] : c \in {400, 404, 500, 503} }
    \cup { [t |-> "undefined", s |-> "", n |-> 0] }
NoNluError == [t |-> "none", s |-> "", n |-> 0]

VARIABLES
    \* ---- _loop
    pc,                 \* where _loop is
    item,               \* the queue item of the current iteration ("none" between iterations)
    command,            \* the user input being handled ("none" outside a turn)
    analyzedType,       \* analyzed.type of the last _analyzeCommand
    nluError,           \* the error of the NLU call of the current command
    errKind,            \* the exception being propagated: "none", "ECANCELLED", "Error"
    errOrigin,          \* what threw it
    policyResult,       \* [act, expect] chosen by the policy in _doAgentReply
    \* ---- fields of DialogueLoop
    dialogueState, icon, expecting, raw, stopped, mgrPromise,
    notifyQueue, userInputQueue,
    \* ---- conversation sink
    sent,               \* replies of the loop to its current input
    \* ---- a run of _showWelcome
    wpc, wAwaited, wCancels,
    \* ---- callers of handleCommand / reset / stop
    cpc, cop,
    ncalls,
    \* ---- one application of the candidate analysis of _analyzeCommand
    nluCandidates, candidates, choice, analysisDone,
    \* ---- one application of a function of the other modules
    arg,                \* its arguments, a record
    res,                \* its result (<<>> before the application)
    applied

loopVars == <<pc, item, command, analyzedType, nluError, errKind, errOrigin, policyResult>>
fieldVars == <<dialogueState, icon, expecting, raw, stopped, mgrPromise,
               notifyQueue, userInputQueue>>
welcomeVars == <<wpc, wAwaited, wCancels>>
callerVars == <<cpc, cop>>
fnVars == <<arg, res, applied>>
analysisVars == <<nluCandidates, candidates, choice, analysisDone, fnVars>>
vars == <<loopVars, fieldVars, sent, welcomeVars, callerVars, ncalls, analysisVars>>

NoResult == [act |-> "none", expect |-> "null"]

\* State after the constructor (lines 122-158): both queues empty, no
\* promise, nothing expected, null dialogue state.
Init ==
    /\ pc = "unstarted"
    /\ item = "none"
    /\ command = "none"
    /\ analyzedType = "none"
    /\ nluError = NoNluError
    /\ errKind = "none"
    /\ errOrigin = "none"
    /\ policyResult = NoResult
    /\ dialogueState = "null"
    /\ icon = "null"
    /\ expecting = "null"
    /\ raw = FALSE
    /\ stopped = FALSE
    /\ mgrPromise = "null"
    /\ notifyQueue = <<>>
    /\ userInputQueue = <<>>
    /\ sent = <<>>
    /\ wpc = "idle"
    /\ wAwaited = FALSE
    /\ wCancels = FALSE
    /\ cpc = [c \in Callers |-> "idle"]
    /\ cop = [c \in Callers |-> "none"]
    /\ ncalls = 0
    /\ nluCandidates = <<>>
    /\ candidates = <<>>
    /\ choice = 0
    /\ analysisDone = FALSE
    /\ arg = <<>>
    /\ res = <<>>
    /\ applied = FALSE

\* ------------------------------------------------- command classification
\* _getSpecialThingTalkType: the classification of a parsed input
GetSpecialThingTalkType(parsed) ==
    CASE parsed = "stop" -> "STOP"
      [] parsed = "nevermind" -> "NEVERMIND"
      [] parsed = "wakeup" -> "WAKEUP"
      [] parsed = "debug" -> "DEBUG"
      [] parsed = "failed" -> "PARSE_FAILURE"
      [] OTHER -> "IN_DOMAIN_COMMAND"

\* One element of the map over nluResult.candidates: parsePrediction throws
\* for code that does not parse or typecheck, and the catch puts the $failed
\* control command in its place; the score is kept.
ParseCandidate(c) ==
    [parsed |-> IF c.code = "unparsable" THEN "failed" ELSE c.code, score |-> c.score]

\* The candidate list of _analyzeCommand: the mapped NLU candidates, then
\* the $failed candidate with score 0 pushed at the end.
BuildCandidates(nlu) ==
    Append([i \in 1..Len(nlu) |-> ParseCandidate(nlu[i])], [parsed |-> "failed", score |-> "0"])

\* the condition of the while loop on one candidate
SkipCandidate(cand) ==
    GetSpecialThingTalkType(cand.parsed) = "PARSE_FAILURE" /\ cand.score = "Infinity"

RECURSIVE ChooseFrom(_, _)
ChooseFrom(cands, i) ==
    IF i < Len(cands) /\ SkipCandidate(cands[i]) THEN ChooseFrom(cands, i + 1) ELSE i

ChooseCandidate_First(cands) == 1

ChooseCandidate_SkipAllFailed(cands) ==
    CHOOSE i \in 1..Len(cands) :
        /\ i = Len(cands) \/ GetSpecialThingTalkType(cands[i].parsed) # "PARSE_FAILURE"
        /\ \A j \in 1..(i - 1) : GetSpecialThingTalkType(cands[j].parsed) = "PARSE_FAILURE"

\* The index (from 1) of the candidate the while loop stops at.
ChooseCandidate(cands) == ChooseFrom(cands, 1)

\* analyzed.type for an NLU answer
AnalyzedType(nlu) ==
    LET cands == BuildCandidates(nlu)
    IN  GetSpecialThingTalkType(cands[ChooseCandidate(cands)].parsed)

\* the types an NLU answer can be analysed into
NluTypes == {AnalyzedType(nlu) : nlu \in CandidateLists}

\* The catch around the NLU call: which apology the error gets, "" when it
\* is thrown again.
NluApology_Off(e) ==
    IF e.t = "string" /\ e.s \in {"EHOSTUNREACH", "ETIMEDOUT"}
    THEN "Sorry, I cannot contact the Almond service. Please check your Internet connection and try again later."
    ELSE IF e.t = "number" /\ (e.n = 404 \/ e.n > 500)
    THEN "Sorry, there seems to be a problem with the Almond service at the moment. Please try again later."
    ELSE ""

NluApology(e) ==
    IF e.t = "string" /\ e.s \in {"EHOSTUNREACH", "ETIMEDOUT"}
    THEN "Sorry, I cannot contact the Almond service. Please check your Internet connection and try again later."
    ELSE IF e.t = "number" /\ (e.n = 404 \/ e.n >= 500)
    THEN "Sorry, there seems to be a problem with the Almond service at the moment. Please try again later."
    ELSE ""

\* _handleUICommand: what it replies for each type, and whether it throws
\* a CancellationError
UICommandReply_StopApologises(type) ==
    CASE type \in {"STOP", "NEVERMIND"} -> <<"Sorry I couldn't help on that.">>
      [] type = "DEBUG" -> <<"Current State:">>
      [] OTHER -> <<>>

UICommandReply(type) ==
    CASE type = "NEVERMIND" -> <<"Sorry I couldn't help on that.">>
      [] type = "DEBUG" -> <<"Current State:">>
      [] OTHER -> <<>>

UICommandCancels(type) == type \in {"STOP", "NEVERMIND"}

\* fail(): the message depends on whether something is expected
FailMessage(exp) ==
    IF exp = "null" THEN "Sorry, I did not understand that. Can you rephrase it?"
    ELSE "Sorry, I did not understand that."

\* the reply of the catch of _loop for an error that is no cancellation
ErrorMessage(it) ==
    IF it = "UserInput" THEN "Sorry, I had an error processing your command: ${error}."
    ELSE "Sorry, that did not work: ${error}."

\* ---------------------------------------------------------------- helpers
\* No continuation of a resolved await is pending.
NoMicrotask == \A c \in Callers : cpc[c] \notin {"ready", "released"}

\* _mgrPromise = null; _mgrResolve(): whoever awaits the promise goes on
Resolved == [c \in Callers |->
    CASE cpc[c] = "await" -> "released"
      [] cpc[c] = "hc_wait" -> "done"
      [] OTHER -> cpc[c]]

\* The loop is in a stretch of code between two awaits of I/O: nothing
\* else runs before it reaches the next one.
LoopInMicrotask ==
    \/ pc = "top"
    \/ pc = "handle" /\ analyzedType \in {"STOP", "WAKEUP"}
    \/ pc = "catch" /\ errKind = "ECANCELLED"

\* an I/O completion of the loop or of _showWelcome is a macrotask
MayComplete == NoMicrotask /\ ~LoopInMicrotask

\* The loop gets an item of the notification queue: a user input goes to
\* _handleUserInput, anything else to _handleAPICall.
Take(it) ==
    /\ item' = it
    /\ sent' = <<>>
    /\ IF it = "UserInput"
       THEN pc' = "analyze" /\ command' = "UserInput"
       ELSE pc' = "api" /\ UNCHANGED command

\* An exception thrown inside the try of _loop reaches its catch; the
\* locals of _handleUserInput are gone by then. An error of the NLU call
\* is remembered in nluError.
RaiseNlu(kind, origin, e) ==
    /\ pc' = "catch"
    /\ errKind' = kind
    /\ errOrigin' = origin
    /\ command' = "none"
    /\ analyzedType' = "none"
    /\ policyResult' = NoResult
    /\ nluError' = e

Raise(kind, origin) == RaiseNlu(kind, origin, NoNluError)

\* an exception thrown outside the try rejects the promise of _loop
Crash(kind, origin) ==
    /\ pc' = "crashed"
    /\ errKind' = kind
    /\ errOrigin' = origin
    /\ item' = "none"
    /\ command' = "none"
    /\ analyzedType' = "none"
    /\ policyResult' = NoResult
    /\ nluError' = NoNluError

locals == <<command, analyzedType, nluError, policyResult>>

\* the end of one iteration of the while loop
EndIteration ==
    /\ pc' = "top"
    /\ item' = "none"
    /\ command' = "none"
    /\ analyzedType' = "none"
    /\ nluError' = NoNluError
    /\ policyResult' = NoResult
    /\ errKind' = "none"
    /\ errOrigin' = "none"

\* ------------------------------------------------------------------- start
\* start(showWelcome): the first readiness promise is created, then _loop
\* runs up to its first await (the policy call of _showWelcome, or the
\* head of the while loop).
Start(showWelcome) ==
    /\ pc = "unstarted"
    /\ mgrPromise' = "pending"
    /\ IF showWelcome
       THEN /\ pc' = "await_welcome"
            /\ wpc' = "policy"
            /\ wAwaited' = TRUE
       ELSE /\ pc' = "top"
            /\ UNCHANGED <<wpc, wAwaited>>
    /\ UNCHANGED <<item, command, analyzedType, nluError, errKind, errOrigin, policyResult,
                   dialogueState, icon, expecting, raw, stopped,
                   notifyQueue, userInputQueue, sent,
                   wCancels, callerVars, ncalls, analysisVars>>

\* ------------------------------------------------------------------- _loop
\* while (!this._stopped), then the setExpected(null) that opens
\* nextQueueItem; an exception here is outside the try.
LoopTop ==
    /\ pc = "top"
    /\ NoMicrotask
    /\ \/ /\ stopped
          /\ pc' = "ended"
          /\ UNCHANGED <<errKind, errOrigin, expecting, raw, item, locals>>
       \/ /\ ~stopped
          /\ expecting' = "null"
          /\ raw' = FALSE
          /\ \/ pc' = "nqi" /\ UNCHANGED <<errKind, errOrigin, item, locals>>
             \/ Crash("Error", "sink")
    /\ sent' = <<>>
    /\ UNCHANGED <<dialogueState, icon, stopped, mgrPromise,
                   notifyQueue, userInputQueue,
                   welcomeVars, callerVars, ncalls, analysisVars>>

\* nextQueueItem after sendAskSpecial: the readiness promise is resolved and
\* the notification queue popped; with an empty queue the loop becomes its
\* waiter.
NextQueueItem ==
    /\ pc = "nqi"
    /\ MayComplete
    /\ \/ /\ Crash("Error", "sink")
          /\ UNCHANGED <<mgrPromise, notifyQueue, sent, cpc>>
       \/ /\ mgrPromise' = "null"
          /\ cpc' = Resolved
          /\ IF notifyQueue # <<>>
             THEN /\ Take(Head(notifyQueue))
                  /\ notifyQueue' = Tail(notifyQueue)
             ELSE /\ pc' = "wait_notify"
                  /\ UNCHANGED <<item, command, notifyQueue, sent>>
          /\ UNCHANGED <<errKind, errOrigin, analyzedType, nluError, policyResult>>
    /\ UNCHANGED <<dialogueState, icon, expecting, raw, stopped,
                   userInputQueue,
                   welcomeVars, cop, ncalls, analysisVars>>

\* _handleAPICall (_showNotification or _showAsyncError), then
\* this._dialogueState = null
HandleAPICall ==
    /\ pc = "api"
    /\ MayComplete
    /\ \/ /\ sent' = Append(sent, IF item = "Notification" THEN "Notification from ${app}"
                                    ELSE "${app} had an error: ${error}.")
          /\ dialogueState' = "null"
          /\ EndIteration
       \/ /\ \E o \in {"formatter", "sink"} : Raise("Error", o)
          /\ UNCHANGED <<sent, dialogueState, item>>
    /\ UNCHANGED <<icon, expecting, raw, stopped, mgrPromise,
                   notifyQueue, userInputQueue,
                   welcomeVars, callerVars, ncalls, analysisVars>>

\* _analyzeCommand: a thingtalk input is classified as it is; natural
\* language is an answer in raw mode and goes to the NLU otherwise; the NLU
\* call throws or answers with candidates.
AnalyzeCommand ==
    /\ pc = "analyze"
    /\ MayComplete
    /\ command = "UserInput"
    /\ \/ /\ \E parsed \in ThingTalkCommands :
                /\ command' = parsed
                /\ analyzedType' = GetSpecialThingTalkType(parsed)
          /\ pc' = "handle"
          /\ UNCHANGED <<nluError, errKind, errOrigin, policyResult>>
       \/ /\ command' = "nl"
          /\ raw
          /\ analyzedType' = "IN_DOMAIN_COMMAND"
          /\ pc' = "handle"
          /\ UNCHANGED <<nluError, errKind, errOrigin, policyResult>>
       \/ /\ ~raw
          /\ \E e \in NluErrors :
                IF NluApology(e) # ""
                THEN /\ pc' = "nlu_apology"
                     /\ command' = "nl"
                     /\ nluError' = e
                     /\ UNCHANGED <<errKind, errOrigin, analyzedType, policyResult>>
                ELSE RaiseNlu("Error", "nlu", e)
       \/ /\ command' = "nl"
          /\ ~raw
          /\ \E type \in NluTypes : analyzedType' = type
          /\ pc' = "handle"
          /\ UNCHANGED <<nluError, errKind, errOrigin, policyResult>>
    /\ UNCHANGED <<item, fieldVars, sent,
                   welcomeVars, callerVars, ncalls, analysisVars>>

\* the reply in the catch around the NLU call, then the CancellationError
NluReply ==
    /\ pc = "nlu_apology"
    /\ MayComplete
    /\ \/ /\ sent' = Append(sent, NluApology(nluError))
          /\ RaiseNlu("ECANCELLED", "nlu", nluError)
       \/ /\ Raise("Error", "sink")
          /\ UNCHANGED sent
    /\ UNCHANGED <<item, fieldVars,
                   welcomeVars, callerVars, ncalls, analysisVars>>

\* _handleUICommand for STOP, NEVERMIND and DEBUG: the reply, if there is
\* one, then the CancellationError or the way on to nextCommand
HandleUICommand ==
    /\ pc = "handle"
    /\ analyzedType \in {"STOP", "NEVERMIND", "DEBUG"}
    /\ NoMicrotask
    /\ \/ /\ UICommandReply(analyzedType) # <<>>
          /\ Raise("Error", "sink")
          /\ UNCHANGED sent
       \/ /\ sent' = sent \o UICommandReply(analyzedType)
          /\ IF UICommandCancels(analyzedType)
             THEN Raise("ECANCELLED", analyzedType)
             ELSE pc' = "nextcmd" /\ UNCHANGED <<errKind, errOrigin, locals>>
    /\ UNCHANGED <<item, fieldVars,
                   welcomeVars, callerVars, ncalls, analysisVars>>

\* _handleUICommand for WAKEUP: with a null dialogue state _showWelcome is
\* called and not awaited (it runs up to its policy call), then
\* setExpected(ValueCategory.Command); with any other state nothing is done.
\* One run of _showWelcome is followed at a time: a WAKEUP that comes while
\* an earlier run is still going starts no second one here.
HandleWakeup ==
    /\ pc = "handle"
    /\ analyzedType = "WAKEUP"
    /\ NoMicrotask
    /\ \/ /\ dialogueState = "null"
          /\ IF wpc = "idle"
             THEN wpc' = "policy" /\ wAwaited' = FALSE
             ELSE UNCHANGED <<wpc, wAwaited>>
          /\ expecting' = "Command"
          /\ raw' = FALSE
          /\ \/ pc' = "nextcmd" /\ UNCHANGED <<errKind, errOrigin, locals>>
             \/ Raise("Error", "sink")
       \/ /\ dialogueState # "null"
          /\ pc' = "nextcmd"
          /\ UNCHANGED <<errKind, errOrigin, locals, wpc, wAwaited, expecting, raw>>
    /\ UNCHANGED <<item, dialogueState, icon, stopped, mgrPromise,
                   notifyQueue, userInputQueue, sent,
                   wCancels, callerVars, ncalls, analysisVars>>

\* _getFallbackExamples for PARSE_FAILURE (ENABLE_SUGGESTIONS is false)
GetFallbackExamples ==
    /\ pc = "handle"
    /\ analyzedType = "PARSE_FAILURE"
    /\ MayComplete
    /\ \/ /\ sent' = Append(sent, "Sorry, I did not understand that.")
          /\ pc' = "nextcmd"
          /\ UNCHANGED <<errKind, errOrigin, locals>>
       \/ /\ \E o \in {"thingpedia", "sink"} : Raise("Error", o)
          /\ UNCHANGED sent
    /\ UNCHANGED <<item, fieldVars,
                   welcomeVars, callerVars, ncalls, analysisVars>>

\* the default branch of _handleUserInput: inputToDialogueState, and for a
\* prediction the head of _handleNormalDialogueCommand (computeNewState,
\* _checkPolicy, the icon) up to the call of the execution agent
InputToDialogueState ==
    /\ pc = "handle"
    /\ analyzedType = "IN_DOMAIN_COMMAND"
    /\ MayComplete
    /\ \/ /\ Raise("Error", "policy")
          /\ UNCHANGED <<dialogueState, icon>>
       \/ /\ pc' = "fail_input"
          /\ UNCHANGED <<errKind, errOrigin, locals, dialogueState, icon>>
       \/ /\ dialogueState' = "user"
          /\ Raise("Error", "checkPolicy")
          /\ UNCHANGED icon
       \/ /\ dialogueState' = "user"
          /\ icon' = "icon"
          /\ pc' = "execute"
          /\ UNCHANGED <<errKind, errOrigin, locals>>
    /\ UNCHANGED <<item, expecting, raw, stopped, mgrPromise,
                   notifyQueue, userInputQueue, sent,
                   welcomeVars, callerVars, ncalls, analysisVars>>

\* this._agent.execute and the assignment of its results
Execute ==
    /\ pc = "execute"
    /\ MayComplete
    /\ \/ /\ dialogueState' = "executed"
          /\ pc' = "policy"
          /\ UNCHANGED <<errKind, errOrigin, locals>>
       \/ /\ Raise("Error", "agent")
          /\ UNCHANGED dialogueState
    /\ UNCHANGED <<item, icon, expecting, raw, stopped, mgrPromise,
                   notifyQueue, userInputQueue, sent,
                   welcomeVars, callerVars, ncalls, analysisVars>>

\* _doAgentReply up to its reply: the policy throws, answers nothing (then
\* fail()) or answers [state, expect, utterance]; with the neural NLG the
\* state is assigned before the NLG call, which may throw.
ChooseAction ==
    /\ pc = "policy"
    /\ MayComplete
    /\ \/ /\ Raise("Error", "policy")
          /\ UNCHANGED <<dialogueState, icon>>
       \/ /\ pc' = "fail_policy"
          /\ UNCHANGED <<errKind, errOrigin, locals, dialogueState, icon>>
       \/ /\ \E r \in [act : PolicyActs, expect : Expects] :
                /\ dialogueState' = r.act
                /\ \/ /\ icon' = "icon"
                      /\ policyResult' = r
                      /\ pc' = "agent_reply"
                      /\ UNCHANGED <<errKind, errOrigin, command, analyzedType, nluError>>
                   \/ /\ Raise("Error", "nlg")
                      /\ UNCHANGED icon
    /\ UNCHANGED <<item, expecting, raw, stopped, mgrPromise,
                   notifyQueue, userInputQueue, sent,
                   welcomeVars, callerVars, ncalls, analysisVars>>

\* the end of _doAgentReply: the reply, then the CancellationError when
\* nothing is expected and the dialogue act is terminal
AgentReply ==
    /\ pc = "agent_reply"
    /\ MayComplete
    /\ \/ /\ sent' = Append(sent, "utterance")
          /\ IF policyResult.expect = "null" /\ policyResult.act \in TERMINAL_STATES
             THEN Raise("ECANCELLED", "terminal")
             ELSE pc' = "cards" /\ UNCHANGED <<errKind, errOrigin, locals>>
       \/ /\ Raise("Error", "sink")
          /\ UNCHANGED sent
    /\ UNCHANGED <<item, fieldVars,
                   welcomeVars, callerVars, ncalls, analysisVars>>

\* the rest of _handleNormalDialogueCommand: the result cards, then
\* setExpected(expect); the turn ends when nothing is expected
FinishReply ==
    /\ pc = "cards"
    /\ MayComplete
    /\ \/ /\ \E o \in {"formatter", "sink"} : Raise("Error", o)
          /\ UNCHANGED <<expecting, raw, item>>
       \/ /\ expecting' = policyResult.expect
          /\ raw' = (policyResult.expect = "RawString")
          /\ IF policyResult.expect = "null"
             THEN EndIteration
             ELSE /\ pc' = "nextcmd"
                  /\ UNCHANGED <<errKind, errOrigin, item, command, analyzedType, nluError, policyResult>>
    /\ UNCHANGED <<dialogueState, icon, stopped, mgrPromise,
                   notifyQueue, userInputQueue, sent,
                   welcomeVars, callerVars, ncalls, analysisVars>>

\* fail(): the apology, then the CancellationError
Fail ==
    /\ pc \in {"fail_input", "fail_policy"}
    /\ MayComplete
    /\ \/ /\ sent' = Append(sent, FailMessage(expecting))
          /\ Raise("ECANCELLED", pc)
       \/ /\ Raise("Error", "sink")
          /\ UNCHANGED sent
    /\ UNCHANGED <<item, fieldVars,
                   welcomeVars, callerVars, ncalls, analysisVars>>

\* nextCommand after sendAskSpecial: the readiness promise is resolved and
\* the user-input queue popped; with an empty queue the loop becomes its
\* waiter.
NextCommand ==
    /\ pc = "nextcmd"
    /\ MayComplete
    /\ \/ /\ Raise("Error", "sink")
          /\ UNCHANGED <<mgrPromise, userInputQueue, sent, cpc>>
       \/ /\ mgrPromise' = "null"
          /\ cpc' = Resolved
          /\ analyzedType' = "none"
          /\ nluError' = NoNluError
          /\ policyResult' = NoResult
          /\ IF userInputQueue # <<>>
             THEN /\ command' = Head(userInputQueue)
                  /\ userInputQueue' = Tail(userInputQueue)
                  /\ sent' = <<>>
                  /\ pc' = "analyze"
             ELSE /\ pc' = "wait_user"
                  /\ command' = "none"
                  /\ sent' = <<>>
                  /\ UNCHANGED userInputQueue
          /\ UNCHANGED <<errKind, errOrigin>>
    /\ UNCHANGED <<item,
                   dialogueState, icon, expecting, raw, stopped,
                   notifyQueue,
                   welcomeVars, cop, ncalls, analysisVars>>

\* what the catch of _loop assigns for a cancellation
CancelReset(s) == "null"

\* the catch of _loop: a cancellation resets icon, dialogue state and
\* expected category; any other error is reported; an exception of the
\* catch itself leaves _loop.
CatchHandler ==
    /\ pc = "catch"
    /\ NoMicrotask
    /\ \/ /\ errKind = "ECANCELLED"
          /\ icon' = CancelReset(icon)
          /\ dialogueState' = CancelReset(dialogueState)
          /\ expecting' = CancelReset(expecting)
          /\ raw' = FALSE
          /\ UNCHANGED sent
          /\ \/ EndIteration
             \/ Crash("Error", "sink")
       \/ /\ errKind # "ECANCELLED"
          /\ \/ /\ sent' = Append(sent, ErrorMessage(item))
                /\ EndIteration
             \/ /\ Crash("Error", "sink")
                /\ UNCHANGED sent
          /\ UNCHANGED <<icon, dialogueState, expecting, raw>>
    /\ UNCHANGED <<stopped, mgrPromise,
                   notifyQueue, userInputQueue,
                   welcomeVars, callerVars, ncalls, analysisVars>>

\* ------------------------------------------------------------ _showWelcome
\* The replies of _showWelcome are not recorded in sent, which holds the
\* replies of the loop to its current input.
\*
\* An exception of _showWelcome: the run awaited by _loop (at start, outside
\* the try) rejects the promise of _loop; the run that _handleUICommand did
\* not await is an unhandled rejection, and _loop never sees it.
WelcomeThrows(kind, origin) ==
    /\ wpc' = "idle"
    /\ wCancels' = FALSE
    /\ IF wAwaited
       THEN Crash(kind, origin)
       ELSE UNCHANGED <<pc, errKind, errOrigin, item, locals>>

\* _doAgentReply of _showWelcome, up to its reply
WelcomeChooseAction ==
    /\ wpc = "policy"
    /\ MayComplete
    /\ \/ /\ WelcomeThrows("Error", "policy")
          /\ UNCHANGED <<dialogueState, icon>>
       \/ /\ wpc' = "fail"
          /\ UNCHANGED <<pc, errKind, errOrigin, item, locals, dialogueState, icon, wCancels>>
       \/ /\ \E r \in [act : PolicyActs, expect : Expects] :
                /\ dialogueState' = r.act
                /\ wCancels' = (r.expect = "null" /\ r.act \in TERMINAL_STATES)
          /\ icon' = "icon"
          /\ wpc' = "reply"
          /\ UNCHANGED <<pc, errKind, errOrigin, item, locals>>
    /\ UNCHANGED <<expecting, raw, stopped, mgrPromise,
                   notifyQueue, userInputQueue, sent,
                   wAwaited, callerVars, ncalls, analysisVars>>

\* fail() of _doAgentReply of _showWelcome: the apology, then the
\* CancellationError
WelcomeFail ==
    /\ wpc = "fail"
    /\ MayComplete
    /\ \/ WelcomeThrows("ECANCELLED", "fail_policy")
       \/ WelcomeThrows("Error", "sink")
    /\ UNCHANGED <<fieldVars, sent,
                   wAwaited, callerVars, ncalls, analysisVars>>

\* the reply of _doAgentReply, then the rest of _showWelcome: the dialogue
\* state is set back to null and setExpected(null) closes the round
WelcomeReply ==
    /\ wpc = "reply"
    /\ MayComplete
    /\ \/ /\ WelcomeThrows("Error", "sink")
          /\ UNCHANGED <<dialogueState, expecting, raw>>
       \/ /\ wCancels
          /\ WelcomeThrows("ECANCELLED", "terminal")
          /\ UNCHANGED <<dialogueState, expecting, raw>>
       \/ /\ ~wCancels
          /\ dialogueState' = "null"
          /\ expecting' = "null"
          /\ raw' = FALSE
          /\ wpc' = "idle"
          /\ pc' = IF wAwaited THEN "top" ELSE pc
          /\ UNCHANGED <<errKind, errOrigin, item, locals, wCancels>>
    /\ UNCHANGED <<icon, stopped, mgrPromise,
                   notifyQueue, userInputQueue, sent,
                   wAwaited, callerVars, ncalls, analysisVars>>

\* ------------------------------------------------------------- producers
PushNotify_Preempts(it) ==
    /\ Take(it)
    /\ UNCHANGED notifyQueue

\* AsyncQueue.push on the notification queue: the item goes to the waiting
\* loop, or to the end of the queue when the loop does not wait on it.
PushNotify(it) ==
    IF pc = "wait_notify"
    THEN /\ Take(it)
         /\ UNCHANGED notifyQueue
    ELSE /\ notifyQueue' = Append(notifyQueue, it)
         /\ UNCHANGED <<pc, item, command, sent>>

\* AsyncQueue.push on the user-input queue
PushUserInput(cmd) ==
    IF pc = "wait_user"
    THEN /\ pc' = "analyze"
         /\ command' = cmd
         /\ sent' = <<>>
         /\ UNCHANGED userInputQueue
    ELSE /\ userInputQueue' = Append(userInputQueue, cmd)
         /\ UNCHANGED <<pc, command, sent>>

\* code of another macrotask cannot run between a resolve of the loop and
\* the continuations it released
MayCall ==
    /\ pc # "unstarted"
    /\ ncalls < MaxCalls
    /\ ~LoopInMicrotask
    /\ \A c \in Callers : cpc[c] # "released"

\* the callers are interchangeable: they are taken in order
NextCaller(c) ==
    /\ cpc[c] = "idle"
    /\ \A d \in Callers : d < c => cpc[d] # "idle"

\* _pushQueueItem: a readiness promise is created if there is none, then
\* the item is pushed on the notification queue
PushQueueItem(it) ==
    /\ MayCall
    /\ ncalls' = ncalls + 1
    /\ mgrPromise' = "pending"
    /\ PushNotify(it)
    /\ UNCHANGED <<analyzedType, nluError, errKind, errOrigin, policyResult,
                   dialogueState, icon, expecting, raw, stopped,
                   userInputQueue,
                   welcomeVars, callerVars, analysisVars>>

PushCommand == PushQueueItem("UserInput")

DispatchNotify == PushQueueItem("Notification")

DispatchNotifyError == PushQueueItem("Error")

\* the await on this._mgrPromise that opens handleCommand, reset and stop:
\* on a pending promise the caller is suspended, on null it goes on in the
\* next microtask
AwaitReady == IF mgrPromise = "pending" THEN "await" ELSE "ready"

CallHandleCommand(c) ==
    /\ MayCall
    /\ NextCaller(c)
    /\ cop' = [cop EXCEPT ![c] = "handleCommand"]
    /\ cpc' = [cpc EXCEPT ![c] = AwaitReady]
    /\ ncalls' = ncalls + 1
    /\ UNCHANGED <<loopVars, fieldVars, sent, welcomeVars, analysisVars>>

CallReset(c) ==
    /\ MayCall
    /\ NextCaller(c)
    /\ cop' = [cop EXCEPT ![c] = "reset"]
    /\ cpc' = [cpc EXCEPT ![c] = AwaitReady]
    /\ ncalls' = ncalls + 1
    /\ UNCHANGED <<loopVars, fieldVars, sent, welcomeVars, analysisVars>>

\* stop() sets _stopped before it waits
CallStop(c) ==
    /\ MayCall
    /\ NextCaller(c)
    /\ stopped' = TRUE
    /\ cop' = [cop EXCEPT ![c] = "stop"]
    /\ cpc' = [cpc EXCEPT ![c] = AwaitReady]
    /\ ncalls' = ncalls + 1
    /\ UNCHANGED <<loopVars, dialogueState, icon, expecting, raw, mgrPromise,
                   notifyQueue, userInputQueue,
                   sent, welcomeVars, analysisVars>>

Continues(c, op) ==
    /\ cpc[c] \in {"ready", "released"}
    /\ cop[c] = op

\* assert(this._mgrPromise === null) fails: the call ends in an
\* AssertionError
AssertFails(c) ==
    /\ mgrPromise # "null"
    /\ cpc' = [cpc EXCEPT ![c] = "assert"]
    /\ UNCHANGED <<loopVars, fieldVars, sent, welcomeVars, cop, ncalls, analysisVars>>

\* handleCommand after its await: a new readiness promise, the command on
\* the queue the loop waits on (notification queue in the default state,
\* else user-input queue), and the wait on the new promise
ContinueHandleCommand(c) ==
    /\ Continues(c, "handleCommand")
    /\ \/ AssertFails(c)
       \/ /\ mgrPromise = "null"
          /\ mgrPromise' = "pending"
          /\ cpc' = [cpc EXCEPT ![c] = "hc_wait"]
          /\ IF pc = "wait_notify"
             THEN /\ PushNotify("UserInput")
                  /\ UNCHANGED userInputQueue
             ELSE /\ PushUserInput("UserInput")
                  /\ UNCHANGED <<item, notifyQueue>>
          /\ UNCHANGED <<analyzedType, nluError, errKind, errOrigin, policyResult,
                         dialogueState, icon, expecting, raw, stopped,
                         welcomeVars, cop, ncalls, analysisVars>>

\* AsyncQueue.cancelWait(new CancellationError()) on the queue chosen by
\* _isInDefaultState: the pending pop rejects.  The pop of nextQueueItem is
\* outside the try of _loop, the pop of nextCommand inside it; without a
\* waiter cancelWait does nothing.
CancelWait(who) ==
    IF pc = "wait_notify" THEN Crash("ECANCELLED", who)
    ELSE IF pc = "wait_user" THEN Raise("ECANCELLED", who) /\ UNCHANGED item
    ELSE UNCHANGED <<pc, errKind, errOrigin, item, locals>>

\* reset() after its await
ContinueReset(c) ==
    /\ Continues(c, "reset")
    /\ \/ AssertFails(c)
       \/ /\ mgrPromise = "null"
          /\ CancelWait("reset")
          /\ cpc' = [cpc EXCEPT ![c] = "done"]
          /\ UNCHANGED <<fieldVars, sent, welcomeVars, cop, ncalls, analysisVars>>

\* stop() after its await; it returns after stopping the NLU and NLG clients
ContinueStop(c) ==
    /\ Continues(c, "stop")
    /\ \/ AssertFails(c)
       \/ /\ mgrPromise = "null"
          /\ CancelWait("stop")
          /\ cpc' = [cpc EXCEPT ![c] = "done"]
          /\ UNCHANGED <<fieldVars, sent, welcomeVars, cop, ncalls, analysisVars>>

LoopNext ==
    \/ LoopTop \/ NextQueueItem \/ HandleAPICall
    \/ AnalyzeCommand \/ NluReply \/ HandleUICommand \/ HandleWakeup
    \/ GetFallbackExamples \/ InputToDialogueState \/ Execute \/ ChooseAction
    \/ AgentReply \/ FinishReply \/ Fail \/ NextCommand \/ CatchHandler

WelcomeNext == WelcomeChooseAction \/ WelcomeFail \/ WelcomeReply

Next ==
    \/ \E w \in BOOLEAN : Start(w)
    \/ LoopNext
    \/ WelcomeNext
    \/ PushCommand \/ DispatchNotify \/ DispatchNotifyError
    \/ \E c \in Callers : CallHandleCommand(c) \/ CallReset(c) \/ CallStop(c)
    \/ \E c \in Callers : ContinueHandleCommand(c) \/ ContinueReset(c) \/ ContinueStop(c)

Spec == Init /\ [][Next]_vars

\* -------------------------------------------- the candidate analysis alone
\* The part of _analyzeCommand after the NLU call, applied once to every
\* NLU answer of up to MaxCand candidates.
InitAnalysis ==
    /\ pc = "unstarted"
    /\ item = "none"
    /\ command = "nl"
    /\ analyzedType = "none"
    /\ nluError = NoNluError
    /\ errKind = "none"
    /\ errOrigin = "none"
    /\ policyResult = NoResult
    /\ dialogueState = "null"
    /\ icon = "null"
    /\ expecting = "null"
    /\ raw = FALSE
    /\ stopped = FALSE
    /\ mgrPromise = "null"
    /\ notifyQueue = <<>>
    /\ userInputQueue = <<>>
    /\ sent = <<>>
    /\ wpc = "idle"
    /\ wAwaited = FALSE
    /\ wCancels = FALSE
    /\ cpc = [c \in Callers |-> "idle"]
    /\ cop = [c \in Callers |-> "none"]
    /\ ncalls = 0
    /\ nluCandidates \in CandidateLists
    /\ candidates = <<>>
    /\ choice = 0
    /\ analysisDone = FALSE
    /\ arg = <<>>
    /\ res = <<>>
    /\ applied = FALSE

AnalyzeCandidates ==
    /\ ~analysisDone
    /\ candidates' = BuildCandidates(nluCandidates)
    /\ choice' = ChooseCandidate(candidates')
    /\ analyzedType' = GetSpecialThingTalkType(candidates'[choice'].parsed)
    /\ analysisDone' = TRUE
    /\ UNCHANGED <<pc, item, command, nluError, errKind, errOrigin, policyResult,
                   fieldVars, sent, welcomeVars, callerVars, ncalls, nluCandidates,
                   fnVars>>

SpecAnalysis == InitAnalysis /\ [][AnalyzeCandidates]_vars

\* The loop is not running: the state of its variables under the
\* specifications that apply one function of another part of the code.
LoopNotStarted ==
    /\ pc = "unstarted"
    /\ item = "none"
    /\ command = "none"
    /\ analyzedType = "none"
    /\ nluError = NoNluError
    /\ errKind = "none"
    /\ errOrigin = "none"
    /\ policyResult = NoResult
    /\ dialogueState = "null"
    /\ icon = "null"
    /\ expecting = "null"
    /\ raw = FALSE
    /\ stopped = FALSE
    /\ mgrPromise = "null"
    /\ notifyQueue = <<>>
    /\ userInputQueue = <<>>
    /\ sent = <<>>
    /\ wpc = "idle"
    /\ wAwaited = FALSE
    /\ wCancels = FALSE
    /\ cpc = [c \in Callers |-> "idle"]
    /\ cop = [c \in Callers |-> "none"]
    /\ ncalls = 0
    /\ nluCandidates = <<>>
    /\ candidates = <<>>
    /\ choice = 0
    /\ analysisDone = FALSE

\* what a function application leaves alone
loopFrame == <<loopVars, fieldVars, sent, welcomeVars, callerVars, ncalls,
               nluCandidates, candidates, choice, analysisDone>>

\* ------------------------------------- _analyzeCommand on a parsed input
\* payloads of the values an answer can carry
MaxValue == 5

\* the types of a SpecialControlIntent
SpecialTypes == {"stop", "nevermind", "wakeup", "debug", "failed", "yes", "no",
                 "help", "train", "back", "more", "empty", "maybe"}
ValueKinds == {"String", "Number", "Location", "Date", "Time", "Measure"}
NullValue == [kind |-> "null", v |-> 0]
\* Ast.Input: a ControlCommand with one of its three intents, or a program,
\* a dialogue state, a permission rule
ControlCommands ==
    { [cls |-> "ControlCommand", intent |-> "special", type |-> t, value |-> NullValue] :
        t \in SpecialTypes }
    \cup { [cls |-> "ControlCommand", intent |-> "answer", type |-> "",
            value |-> [kind |-> k, v |-> n]] : k \in ValueKinds, n \in 1..MaxValue }
    \cup { [cls |-> "ControlCommand", intent |-> "choice", type |-> "",
            value |-> [kind |-> "index", v |-> n]] : n \in 0..MaxValue }
OtherInputs ==
    { [cls |-> c, intent |-> "", type |-> "", value |-> NullValue] :
        c \in {"Program", "DialogueState", "PermissionRule"} }
ParsedInputs == ControlCommands \cup OtherInputs
NullInput == [cls |-> "null", intent |-> "", type |-> "", value |-> NullValue]

\* _getSpecialThingTalkType on an Ast.Input: the switch on intent.type is
\* reached only for a ControlCommand with a SpecialControlIntent
SpecialThingTalkTypeOf(input) ==
    IF input.cls = "ControlCommand" /\ input.intent = "special"
    THEN GetSpecialThingTalkType(input.type)
    ELSE "IN_DOMAIN_COMMAND"

MaybeGetThingTalkAnswer_YesOnly(input) ==
    IF input.cls = "ControlCommand" /\ input.intent = "special" /\ input.type = "yes"
    THEN [kind |-> "Boolean", v |-> 1]
    ELSE IF input.cls = "ControlCommand" /\ input.intent \in {"answer", "choice"}
    THEN input.value
    ELSE NullValue

\* _maybeGetThingTalkAnswer (Boolean true is 1, false is 0)
MaybeGetThingTalkAnswer(input) ==
    IF input.cls = "ControlCommand"
    THEN IF input.intent = "special"
         THEN IF input.type \in {"yes", "no"}
              THEN [kind |-> "Boolean", v |-> IF input.type = "yes" THEN 1 ELSE 0]
              ELSE NullValue
         ELSE IF input.intent \in {"answer", "choice"}
         THEN input.value
         ELSE NullValue
    ELSE NullValue

\* the branch of _analyzeCommand for command.type === 'thingtalk'
AnalyzeThingTalk(input) ==
    LET type == SpecialThingTalkTypeOf(input)
    IN  [type |-> type,
         answer |-> MaybeGetThingTalkAnswer(input),
         parsed |-> IF type = "IN_DOMAIN_COMMAND" THEN input ELSE NullInput]

InitClassify ==
    /\ LoopNotStarted
    /\ arg \in [parsed : ParsedInputs]
    /\ res = <<>>
    /\ applied = FALSE

ApplyAnalyzeThingTalk ==
    /\ ~applied
    /\ res' = AnalyzeThingTalk(arg.parsed)
    /\ applied' = TRUE
    /\ UNCHANGED <<loopFrame, arg>>

SpecClassify == InitClassify /\ [][ApplyAnalyzeThingTalk]_vars

\* ------------------------------------------------------------------
\* ast_manip.js: filters and tables (addFilter and its helpers)
\* ------------------------------------------------------------------
\* the longest chain of addFilter calls applied to one table
MaxFilters == 2

\* the output arguments of the table's schema; "id" is declared unique
SchemaArgs == {"id", "p"}
UniqueArgs == {"id"}
FilterOperators == {"==", ">=", "<=", "in_array"}

\* addFilter never reads the value of an atom
FilterValue == [kind |-> "Number", v |-> 1]
Atom(name, operator, value) ==
    [type |-> "Atom", name |-> name, operator |-> operator, value |-> value]
NotExpr(expr) == [type |-> "Not", expr |-> expr]
AndExpr(operands) == [type |-> "And", operands |-> operands]
OrExpr(operands) == [type |-> "Or", operands |-> operands]
TrueExpr == [type |-> "True"]
ExternalExpr == [type |-> "External"]
ComputeExpr == [type |-> "Compute"]

Atoms == { Atom(n, o, FilterValue) : n \in SchemaArgs, o \in FilterOperators }
ComplexFilters ==
    { AndExpr(<<Atom("p", ">=", FilterValue), Atom("p", "<=", FilterValue)>>),
      OrExpr(<<Atom("id", "==", FilterValue), Atom("p", "==", FilterValue)>>),
      OrExpr(<<Atom("p", "==", FilterValue), Atom("p", ">=", FilterValue)>>),
      NotExpr(OrExpr(<<Atom("p", "==", FilterValue), Atom("p", "<=", FilterValue)>>)),
      TrueExpr, ExternalExpr, ComputeExpr }
Filters == Atoms \cup { NotExpr(a) : a \in Atoms } \cup ComplexFilters

InvocationTable == [type |-> "Invocation", schema |-> [no_filter |-> FALSE]]
FilterTable(table, filter, schema) ==
    [type |-> "Filter", table |-> table, filter |-> filter, schema |-> schema]
ProjectionTable(table, schema) ==
    [type |-> "Projection", table |-> table, schema |-> schema]
SortTable(table, schema) ==
    [type |-> "Sort", table |-> table, schema |-> schema]
NullTable == [type |-> "null"]

\* $options.flags
FilterOptions == [turking : BOOLEAN, multifilters : BOOLEAN]

RECURSIVE iterateFields(_)
iterateFields(filter) ==
    IF filter.type = "And"
    THEN UNION { iterateFields(filter.operands[i]) : i \in DOMAIN filter.operands }
    ELSE IF filter.type = "Not" THEN iterateFields(filter.expr)
    ELSE IF filter.type = "Atom" THEN {filter}
    ELSE {}

\* the tables of the model hold no join, VarRef or ResultRef
RECURSIVE iterateFilters(_)
iterateFilters(table) ==
    IF table.type = "Invocation" THEN {}
    ELSE IF table.type = "Filter" THEN {table.filter}
    ELSE iterateFilters(table.table)

hasUniqueFilter(table) ==
    \E filter \in iterateFilters(table) :
        \E atom \in iterateFields(filter) : atom.name \in UniqueArgs

RECURSIVE checkFilterUniqueness_NoOr(_, _)
checkFilterUniqueness_NoOr(table, filter) ==
    IF filter.type = "And"
    THEN \E i \in DOMAIN filter.operands :
            checkFilterUniqueness_NoOr(table, filter.operands[i])
    ELSE IF filter.type = "Not" THEN checkFilterUniqueness_NoOr(table, filter.expr)
    ELSE IF filter.type = "Atom" THEN filter.name \in UniqueArgs
    ELSE FALSE

RECURSIVE checkFilterUniqueness(_, _)
checkFilterUniqueness(table, filter) ==
    IF filter.type \in {"And", "Or"}
    THEN \E i \in DOMAIN filter.operands :
            checkFilterUniqueness(table, filter.operands[i])
    ELSE IF filter.type = "External" THEN FALSE
    ELSE IF filter.type = "Not" THEN checkFilterUniqueness(table, filter.expr)
    ELSE IF filter.type \in {"True", "False"} THEN FALSE
    ELSE IF filter.type = "Compute" THEN FALSE
    ELSE filter.name \in UniqueArgs

\* BooleanExpression.optimize() on a conjunction: nested conjunctions are
\* flattened and true operands dropped
RECURSIVE FlatOperands(_)
FlatOperands(operands) ==
    IF operands = <<>> THEN <<>>
    ELSE LET first == Head(operands)
             rest == FlatOperands(Tail(operands))
         IN  IF first.type = "And" THEN FlatOperands(first.operands) \o rest
             ELSE IF first.type = "True" THEN rest
             ELSE <<first>> \o rest

optimize(filter) ==
    IF filter.type # "And" THEN filter
    ELSE LET operands == FlatOperands(filter.operands)
         IN  IF operands = <<>> THEN TrueExpr
             ELSE IF Len(operands) = 1 THEN operands[1]
             ELSE AndExpr(operands)

\* the loop of addFilter over the operands of the existing filter
NonSensical(existing, filter) ==
    LET atom == IF filter.type = "Not" THEN filter.expr ELSE filter
        operands == IF existing.type = "And" THEN existing.operands ELSE <<existing>>
    IN  \E i \in DOMAIN operands :
            /\ operands[i].type = "Atom"
            /\ atom.type = "Atom"
            /\ operands[i].name = atom.name
            /\ \/ operands[i].operator = atom.operator
               \/ operands[i].operator = "=="
               \/ atom.operator = "=="
               \/ operands[i].operator = "in_array"
               \/ atom.operator = "in_array"

RECURSIVE addFilter(_, _, _, _)
addFilter(table, filter, options, forceAdd) ==
    IF table.schema.no_filter THEN NullTable
    ELSE IF table.type = "Projection"
    THEN LET added == addFilter(table.table, filter, options, forceAdd)
         IN  IF added = NullTable THEN NullTable
             ELSE ProjectionTable(added, table.schema)
    ELSE IF /\ ~forceAdd
            /\ ~options.multifilters
            /\ table.type = "Filter"
            /\ options.turking
    THEN NullTable
    ELSE IF table.type = "Filter"
    THEN IF /\ ~forceAdd
            /\ filter.type # "Atom"
            /\ ~(filter.type = "Not" /\ filter.expr.type = "Atom")
         THEN NullTable
         ELSE IF checkFilterUniqueness(table, filter) THEN NullTable
         ELSE IF hasUniqueFilter(table) THEN NullTable
         ELSE IF NonSensical(table.filter, filter) THEN NullTable
         ELSE FilterTable(table.table,
                          optimize(AndExpr(<<table.filter, filter>>)),
                          table.schema)
    ELSE FilterTable(table, filter,
                     [no_filter |-> checkFilterUniqueness(table, filter)])

\* the tables addFilter starts from: a query, possibly projected or sorted
BaseTables ==
    { InvocationTable,
      ProjectionTable(InvocationTable, [no_filter |-> FALSE]),
      SortTable(InvocationTable, [no_filter |-> FALSE]) }

\* arg.past lists the filters the earlier calls of the chain have applied
InitAddFilter ==
    /\ LoopNotStarted
    /\ arg \in [table : BaseTables, filter : Filters, options : FilterOptions,
                forceAdd : BOOLEAN, past : {<<>>}]
    /\ res = <<>>
    /\ applied = FALSE

ApplyAddFilter ==
    /\ ~applied
    /\ res' = addFilter(arg.table, arg.filter, arg.options, arg.forceAdd)
    /\ applied' = TRUE
    /\ UNCHANGED <<loopFrame, arg>>

\* the next call is made on the result, as it is or wrapped in a projection
ChainAddFilter ==
    /\ applied
    /\ res # NullTable
    /\ Len(arg.past) + 1 < MaxFilters
    /\ \E table \in {res, ProjectionTable(res, [no_filter |-> FALSE])},
          filter \in Filters, forceAdd \in BOOLEAN :
          arg' = [table |-> table, filter |-> filter, options |-> arg.options,
                  forceAdd |-> forceAdd, past |-> Append(arg.past, arg.filter)]
    /\ res' = <<>>
    /\ applied' = FALSE
    /\ UNCHANGED loopFrame

NextAddFilter == ApplyAddFilter \/ ChainAddFilter

SpecAddFilter == InitAddFilter /\ [][NextAddFilter]_vars

\* ------------------------------------------------------------------
\* ast_manip.js: makeFilter, makeAndFilter, makeOrFilter, makeButFilter
\* ------------------------------------------------------------------
\* the longest list of values handed to makeAndFilter and its siblings
MaxValues == 3

\* a type is a sequence of constructor names; Type.Array wraps a type
TypeArray(type) == <<"Array">> \o type
ValueTypes == {<<"Number">>, <<"String">>}

\* a value: a VarRef has a name, a constant has none (undefined)
ValueNames == {"undefined", "x"}
FilterValues == [name : ValueNames, type : ValueTypes]

FilterParams == [name : {"p", "q"}]
MakeFilterOperators == {"==", "contains", ">="}

\* the keys param.name + '+' + type of $options.params.out and blacklist
ParamKey(name, type) == <<name>> \o type
ParamKeys ==
    { ParamKey(n, t) : n \in {"p"}, t \in ValueTypes \cup { TypeArray(e) : e \in ValueTypes } }
ParamOptions ==
    [out : SUBSET ParamKeys,
     blacklist : { b \in SUBSET ParamKeys : Cardinality(b) <= 1 }]

NullFilter == [type |-> "null"]

makeFilter_IgnoresBlacklist(options, param, op, value, negate) ==
    LET vtype == IF op = "contains" THEN TypeArray(value.type) ELSE value.type  \* value.getType()
        f == Atom(param.name, op, value)
    IN  IF ParamKey(param.name, vtype) \notin options.out THEN NullFilter
        ELSE IF negate THEN NotExpr(f) ELSE f

makeFilter(options, param, op, value, negate) ==
    LET vtype == IF op = "contains" THEN TypeArray(value.type) ELSE value.type  \* value.getType()
        f == Atom(param.name, op, value)
    IN  IF ParamKey(param.name, vtype) \notin options.out THEN NullFilter
        ELSE IF ParamKey(param.name, vtype) \in options.blacklist THEN NullFilter
        ELSE IF negate THEN NotExpr(f) ELSE f

makeAndFilter_AnyLength(options, param, op, values, negate) ==
    IF Len(values) < 2 THEN NullFilter
    ELSE IF values[1].name = values[2].name THEN NullFilter
    ELSE LET operands == [i \in DOMAIN values |->
                             makeFilter(options, param, op, values[i], FALSE)]
             f == AndExpr(operands)
         IN  IF \E i \in DOMAIN operands : operands[i] = NullFilter THEN NullFilter
             ELSE IF negate THEN NotExpr(f) ELSE f

makeAndFilter(options, param, op, values, negate) ==
    IF Len(values) # 2 THEN NullFilter
    ELSE IF values[1].name = values[2].name THEN NullFilter
    ELSE LET operands == [i \in DOMAIN values |->
                             makeFilter(options, param, op, values[i], FALSE)]
             f == AndExpr(operands)
         IN  IF \E i \in DOMAIN operands : operands[i] = NullFilter THEN NullFilter
             ELSE IF negate THEN NotExpr(f) ELSE f

makeOrFilter(options, param, op, values, negate) ==
    IF Len(values) # 2 THEN NullFilter
    ELSE IF values[1].name = values[2].name THEN NullFilter
    ELSE LET operands == [i \in DOMAIN values |->
                             makeFilter(options, param, op, values[i], negate)]
             f == OrExpr(operands)
         IN  IF \E i \in DOMAIN operands : operands[i] = NullFilter THEN NullFilter
             ELSE IF negate THEN NotExpr(f) ELSE f

makeButFilter(options, param, op, values) ==
    IF Len(values) # 2 THEN NullFilter
    ELSE IF values[1].name = values[2].name THEN NullFilter
    ELSE LET operands == <<makeFilter(options, param, op, values[1], FALSE),
                           makeFilter(options, param, op, values[2], TRUE)>>
         IN  IF \E i \in DOMAIN operands : operands[i] = NullFilter THEN NullFilter
             ELSE AndExpr(operands)

ValueLists == UNION { [1..n -> FilterValues] : n \in 0..MaxValues }

InitMakeFilters ==
    /\ LoopNotStarted
    /\ arg \in [options : ParamOptions, param : FilterParams,
                op : MakeFilterOperators, values : ValueLists, negate : BOOLEAN]
    /\ res = <<>>
    /\ applied = FALSE

\* res holds the results of the three functions on the same arguments
ApplyMakeFilters ==
    /\ ~applied
    /\ res' = [and |-> makeAndFilter(arg.options, arg.param, arg.op, arg.values, arg.negate),
               or |-> makeOrFilter(arg.options, arg.param, arg.op, arg.values, arg.negate),
               but |-> makeButFilter(arg.options, arg.param, arg.op, arg.values)]
    /\ applied' = TRUE
    /\ UNCHANGED <<loopFrame, arg>>

SpecMakeFilters == InitMakeFilters /\ [][ApplyMakeFilters]_vars

InitMakeFilter ==
    /\ LoopNotStarted
    /\ arg \in [options : ParamOptions, param : FilterParams,
                op : MakeFilterOperators, value : FilterValues, negate : BOOLEAN]
    /\ res = <<>>
    /\ applied = FALSE

ApplyMakeFilter ==
    /\ ~applied
    /\ res' = makeFilter(arg.options, arg.param, arg.op, arg.value, arg.negate)
    /\ applied' = TRUE
    /\ UNCHANGED <<loopFrame, arg>>

SpecMakeFilter == InitMakeFilter /\ [][ApplyMakeFilter]_vars

\* ------------------------------------------------------------------
\* ast_manip.js: self-join detection
\* ------------------------------------------------------------------
\* how deep stream operators nest around the monitored tables
MaxNesting == 1

\* the functions of the model, as kind and channel; the function name is
\* kind + ':' + channel
Functions == { <<"a", "f">>, <<"a", "g">>, <<"b", "f">> }
Invocation(function) ==
    [type |-> "Invocation", kind |-> function[1], channel |-> function[2]]
TableFilter(table) == [type |-> "Filter", table |-> table]
TableJoin(lhs, rhs) == [type |-> "Join", lhs |-> lhs, rhs |-> rhs]
Timer == [type |-> "Timer"]
AtTimer == [type |-> "AtTimer"]
Monitor(table) == [type |-> "Monitor", table |-> table]
EdgeFilter(stream) == [type |-> "EdgeFilter", stream |-> stream]
StreamJoin(stream, table) == [type |-> "StreamJoin", stream |-> stream, table |-> table]
NullStream == [type |-> "null"]

Invocations == { Invocation(f) : f \in Functions }
JoinableTables ==
    Invocations
        \cup { TableFilter(t) : t \in Invocations }
        \cup { TableJoin(l, r) : l \in Invocations, r \in Invocations }

RECURSIVE StreamsOfDepth(_)
StreamsOfDepth(d) ==
    IF d = 0
    THEN {Timer, AtTimer} \cup { Monitor(t) : t \in JoinableTables }
    ELSE LET inner == StreamsOfDepth(d - 1)
         IN  inner
                \cup { EdgeFilter(s) : s \in inner }
                \cup { StreamJoin(s, t) : s \in inner, t \in JoinableTables }

RECURSIVE findFunctionNameTable(_)
findFunctionNameTable(table) ==
    IF table.type = "Invocation" THEN << <<table.kind, table.channel>> >>
    ELSE IF table.type \in {"Filter", "Projection"}  \* isUnaryTableToTableOp
    THEN findFunctionNameTable(table.table)
    ELSE findFunctionNameTable(table.lhs) \o findFunctionNameTable(table.rhs)

RECURSIVE findFunctionNameStream(_)
findFunctionNameStream(stream) ==
    IF stream.type \in {"Timer", "AtTimer"} THEN <<>>
    ELSE IF stream.type = "EdgeFilter"  \* isUnaryStreamToStreamOp
    THEN findFunctionNameStream(stream.stream)
    ELSE IF stream.type = "Monitor"  \* isUnaryTableToStreamOp
    THEN findFunctionNameTable(stream.table)
    ELSE findFunctionNameStream(stream.stream) \o findFunctionNameTable(stream.table)

\* Array.prototype.sort on the names: the order of the strings
\* kind + ':' + channel, by the order of their letters
RECURSIVE SortNames(_)
SortNames(names) ==
    IF names = <<>> THEN <<>>
    ELSE LET Alphabet == <<"a", "b", "f", "g">>
             Rank(s) == CHOOSE i \in DOMAIN Alphabet : Alphabet[i] = s
             NameLess(m, n) ==
                 \/ Rank(m[1]) < Rank(n[1])
                 \/ m[1] = n[1] /\ Rank(m[2]) < Rank(n[2])
             least == CHOOSE i \in DOMAIN names :
                          \A j \in DOMAIN names : ~NameLess(names[j], names[i])
             rest == [k \in 1..(Len(names) - 1) |->
                         IF k < least THEN names[k] ELSE names[k + 1]]
         IN  <<names[least]>> \o SortNames(rest)

isSelfJoinStream_Unsorted(stream) ==
    LET functions == findFunctionNameStream(stream)
    IN  /\ Len(functions) > 1
        /\ \E i \in 1..(Len(functions) - 1) : functions[i] = functions[i + 1]

isSelfJoinStream(stream) ==
    LET functions == findFunctionNameStream(stream)
        sorted == SortNames(functions)
    IN  /\ Len(functions) > 1
        /\ \E i \in 1..(Len(sorted) - 1) : sorted[i] = sorted[i + 1]

checkNotSelfJoinStream(stream) ==
    IF isSelfJoinStream(stream) THEN NullStream ELSE stream

InitSelfJoin ==
    /\ LoopNotStarted
    /\ arg \in [stream : StreamsOfDepth(MaxNesting)]
    /\ res = <<>>
    /\ applied = FALSE

ApplyCheckNotSelfJoinStream ==
    /\ ~applied
    /\ res' = checkNotSelfJoinStream(arg.stream)
    /\ applied' = TRUE
    /\ UNCHANGED <<loopFrame, arg>>

SpecSelfJoin == InitSelfJoin /\ [][ApplyCheckNotSelfJoinStream]_vars

\* ------------------------------------------------------------------
\* dialogue_acts/list-proposal.js: replies to a list proposal
\* ------------------------------------------------------------------
\* the longest list of results in a proposal
MaxResults == 3

\* the ids of results and the names the user can give: entity values
EntityIds == [kind : {"Entity"}, v : {1, 2, 3}]
AcceptedNames == EntityIds \cup [kind : {"String"}, v : {1}]
NullAction == [function |-> "null"]
ProposalActions == [function : {"book", "call"}] \cup {NullAction}

ResultLists == UNION { [1..n -> EntityIds] : n \in 0..MaxResults }
\* ctx.aux is the proposal [results, info, actionProposal]; ctx.current.stmt.table
\* is the current query
Contexts ==
    [aux : [results : ResultLists, action : ProposalActions],
     current : {[table |-> "query"]}]

FalseReply(ctx) == [value |-> "false", ctx |-> ctx]
NullReply(ctx) == [value |-> "null", ctx |-> ctx]
StateReply(ctx, state) == [value |-> "state", state |-> state, ctx |-> ctx]

isResult(results, name) ==
    \E i \in DOMAIN results : results[i] = name  \* result.value.id.equals(name)

\* queryRefinement returns null or the refined table; addQuery builds the
\* new state from it
refinedQueryReplies(ctx, name) ==
    { NullReply(ctx),
      StateReply(ctx, [dialogueAct |-> "execute", table |-> "query", filter |-> name,
                       action |-> NullAction, confirm |-> "accepted"]) }

positiveListProposalReply_AcceptsAnyName(ctx, name, acceptedAction, mustHaveAction) ==
    LET action == IF acceptedAction = NullAction THEN ctx.aux.action ELSE acceptedAction
    IN  IF action = NullAction
        THEN IF mustHaveAction THEN {NullReply(ctx)} ELSE refinedQueryReplies(ctx, name)
        ELSE {NullReply(ctx)}

positiveListProposalReply_NoFunctionCheck(ctx, name, acceptedAction, mustHaveAction) ==
    LET action == IF acceptedAction = NullAction THEN ctx.aux.action ELSE acceptedAction
    IN  IF ~isResult(ctx.aux.results, name) THEN {FalseReply(ctx)}
        ELSE IF action = NullAction
        THEN IF mustHaveAction THEN {NullReply(ctx)} ELSE refinedQueryReplies(ctx, name)
        ELSE { NullReply(ctx),
               StateReply(ctx, [dialogueAct |-> "execute", table |-> "query",
                                filter |-> name, action |-> action,
                                confirm |-> "accepted"]) }

\* the set of replies the call can give: queryRefinement and findChainParam
\* may fail
positiveListProposalReply(ctx, name, acceptedAction, mustHaveAction) ==
    LET results == ctx.aux.results
        actionProposal == ctx.aux.action
        action == IF acceptedAction = NullAction THEN actionProposal ELSE acceptedAction
    IN  IF ~isResult(results, name) THEN {FalseReply(ctx)}
        ELSE IF action = NullAction
        THEN IF mustHaveAction THEN {NullReply(ctx)} ELSE refinedQueryReplies(ctx, name)
        ELSE IF /\ actionProposal # NullAction
                /\ actionProposal.function # action.function  \* C.isSameFunction
        THEN {NullReply(ctx)}
        ELSE { NullReply(ctx),
               StateReply(ctx, [dialogueAct |-> "execute", table |-> "query",
                                filter |-> name, action |-> action,
                                confirm |-> "accepted"]) }

listProposalLearnMoreReply(ctx, name) ==
    IF ~isResult(ctx.aux.results, name) THEN {FalseReply(ctx)}
    ELSE refinedQueryReplies(ctx, name)

InitListProposal ==
    /\ LoopNotStarted
    /\ arg \in [fn : {"positiveListProposalReply", "listProposalLearnMoreReply"},
                ctx : Contexts, name : AcceptedNames,
                acceptedAction : ProposalActions, mustHaveAction : BOOLEAN]
    /\ res = <<>>
    /\ applied = FALSE

ApplyPositiveListProposalReply ==
    /\ ~applied
    /\ arg.fn = "positiveListProposalReply"
    /\ res' \in positiveListProposalReply(arg.ctx, arg.name, arg.acceptedAction,
                                          arg.mustHaveAction)
    /\ applied' = TRUE
    /\ UNCHANGED <<loopFrame, arg>>

ApplyListProposalLearnMoreReply ==
    /\ ~applied
    /\ arg.fn = "listProposalLearnMoreReply"
    /\ res' \in listProposalLearnMoreReply(arg.ctx, arg.name)
    /\ applied' = TRUE
    /\ UNCHANGED <<loopFrame, arg>>

NextListProposal == ApplyPositiveListProposalReply \/ ApplyListProposalLearnMoreReply

SpecListProposal == InitListProposal /\ [][NextListProposal]_vars

\* ------------------------------------------------------------------
\* ast_manip.js: the functions that build joins
\* ------------------------------------------------------------------
JoinFunctions == { <<"a", "f">>, <<"a", "g">> }
StringType == <<"String">>
\* Entity(kind:channel), the type of the id of a function's results
EntityType(function) == <<"Entity", function[1], function[2]>>
isEntity(type) == type[1] = "Entity"
isArray(type) == type[1] = "Array"

SchemaArg(name, type, input) == [name |-> name, type |-> type, input |-> input]
\* the placeholders a table may take as a required input
Placeholders == {"p_text", "p_status"}
\* an output that refers to results of function g, alone or in an array
LinkArgs ==
    { SchemaArg("related", EntityType(g), FALSE) : g \in JoinFunctions }
        \cup { SchemaArg("parts", TypeArray(EntityType(g)), FALSE) : g \in JoinFunctions }

\* function(query = pname): a call with one parameter bound to a placeholder
\* or with none
SchemaInvocation(function, pnames, links) ==
    [type |-> "Invocation", kind |-> function[1], channel |-> function[2],
     in_params |-> { [name |-> "query", value |-> p] : p \in pnames },
     schema |-> { SchemaArg("id", EntityType(function), FALSE),
                  SchemaArg("text", StringType, FALSE) }
                    \cup { SchemaArg(p, StringType, TRUE) : p \in pnames }
                    \cup links]
SchemaFilter(table) == [type |-> "Filter", table |-> table, schema |-> table.schema]
SchemaProjection(table, args) ==
    [type |-> "Projection", table |-> table, args |-> args, schema |-> table.schema]

SchemaInvocations ==
    { SchemaInvocation(f, pnames, links) :
        f \in JoinFunctions,
        pnames \in {{}} \cup { {p} : p \in Placeholders },
        links \in {{}} \cup { {l} : l \in LinkArgs } }
SchemaTables == SchemaInvocations \cup { SchemaFilter(t) : t \in SchemaInvocations }
JoinArgs == {"id", "text", "$event"}
Projections == { SchemaProjection(t, <<a>>) : t \in SchemaInvocations, a \in JoinArgs }

\* schema.out[name], schema.inReq[name]: the type, or the empty type when
\* the schema has no such argument
NoType == <<>>
ArgType(schema, name, input) ==
    IF \E a \in schema : a.name = name /\ a.input = input
    THEN (CHOOSE a \in schema : a.name = name /\ a.input = input).type
    ELSE NoType

etaReduceInvocation(invocation, pname) ==
    IF \E p \in invocation.in_params : p.value = pname
    THEN LET inParam == CHOOSE p \in invocation.in_params : p.value = pname
         IN  [passign |-> inParam.name,
              table |-> [invocation EXCEPT !.in_params = @ \ {inParam}]]
    ELSE [passign |-> "undefined", table |-> invocation]

RECURSIVE etaReduceTable(_, _)
etaReduceTable(table, pname) ==
    IF ArgType(table.schema, pname, TRUE) = NoType
    THEN [passign |-> "undefined", table |-> table]
    ELSE IF table.type = "Invocation" THEN etaReduceInvocation(table, pname)
    ELSE IF table.type = "Filter"
    THEN LET reduced == etaReduceTable(table.table, pname)
         IN  [passign |-> reduced.passign,
              table |-> [type |-> "Filter", table |-> reduced.table,
                         schema |-> reduced.table.schema]]
    ELSE [passign |-> "undefined", table |-> table]

tableJoinReplacePlaceholder(into, pname, projection) ==
    IF projection = NullTable THEN NullTable
    ELSE LET joinArg == projection.args[1]
             ptype == IF joinArg = "$event" THEN StringType
                      ELSE ArgType(projection.schema, joinArg, FALSE)
             intotype == ArgType(into.schema, pname, TRUE)
             reduced == etaReduceTable(into, pname)
         IN  IF /\ joinArg = "$event"
                /\ pname \notin {"p_body", "p_message", "p_caption", "p_status"}
             THEN NullTable
             ELSE IF intotype = NoType \/ ptype # intotype THEN NullTable
             ELSE IF reduced.passign = "undefined" THEN NullTable
             ELSE TableJoin(projection.table, reduced.table)

whenGetStream(stream, pname, joinArg) ==
    LET commandtype == ArgType(stream.table.schema, pname, TRUE)
        streamtype == IF joinArg = "$event" THEN StringType
                      ELSE ArgType(stream.stream.table.schema, joinArg, FALSE)
        reduced == etaReduceTable(stream.table, pname)
    IN  IF commandtype = NoType THEN NullStream
        ELSE IF streamtype = NoType \/ streamtype # commandtype THEN NullStream
        ELSE IF joinArg = "$event" /\ stream.stream.type \in {"Timer", "AtTimer"}
        THEN NullStream
        ELSE IF reduced.passign = "undefined" THEN NullStream
        ELSE StreamJoin(stream.stream, reduced.table)

combineStreamCommand(stream, cmd) ==
    IF cmd.table # NullTable
    THEN IF isSelfJoinStream(StreamJoin(stream, cmd.table)) THEN NullStream
         ELSE [type |-> "Rule", stream |-> StreamJoin(stream, cmd.table)]
    ELSE [type |-> "Rule", stream |-> stream]

\* tableName is the channel of the last primitive of the filtered table
filterTableJoin(into, filteredTable) ==
    IF filteredTable = NullTable THEN NullTable
    ELSE IF filteredTable.type # "Filter" THEN NullTable
    ELSE IF ~\E a \in into.schema :
                /\ a.name # "id"
                /\ isEntity(a.type)
                /\ a.type[3] = filteredTable.table.channel
    THEN NullTable
    ELSE [type |-> "Filter", table |-> TableJoin(filteredTable, into)]

arrayFilterTableJoin(into, filteredTable) ==
    IF filteredTable = NullTable THEN NullTable
    ELSE IF filteredTable.type # "Filter" THEN NullTable
    ELSE IF ~\E a \in into.schema :
                /\ isArray(a.type)
                /\ isEntity(Tail(a.type))
                /\ Tail(a.type)[3] = filteredTable.table.channel
    THEN NullTable
    ELSE [type |-> "Filter", table |-> TableJoin(filteredTable, into)]

addArrayJoin(lhs, rhs) ==
    LET idType == ArgType(rhs.schema, "id", FALSE)
        lhsArgs == { a \in lhs.schema :
                        \/ a.type = idType
                        \/ isArray(a.type) /\ Tail(a.type) = idType }
    IN  IF lhs.type # "Filter" THEN NullTable
        ELSE IF idType = NoType \/ ~isEntity(idType) THEN NullTable
        ELSE IF lhsArgs = {} THEN NullTable
        ELSE IF \E a \in lhsArgs : a.name = "id" THEN NullTable
        ELSE [type |-> "Filter", table |-> TableJoin(lhs, rhs)]

\* the arguments of one call: the function, the two tables or the stream
\* and the table to join, the placeholder and the output to bind it to
InitJoin ==
    /\ LoopNotStarted
    /\ arg \in
          [fn : {"tableJoinReplacePlaceholder"}, right : SchemaTables,
           pname : Placeholders, left : Projections \cup {NullTable},
           joinArg : {"none"}]
          \cup [fn : {"whenGetStream"}, right : SchemaTables, pname : Placeholders,
                left : { Monitor(t) : t \in SchemaInvocations }, joinArg : JoinArgs]
          \cup [fn : {"combineStreamCommand"}, right : SchemaTables \cup {NullTable},
                pname : {"none"},
                left : {Timer} \cup { Monitor(t) : t \in SchemaInvocations },
                joinArg : {"none"}]
          \cup [fn : {"filterTableJoin", "arrayFilterTableJoin", "addArrayJoin"},
                right : SchemaTables, pname : {"none"},
                left : SchemaTables, joinArg : {"none"}]
    /\ res = <<>>
    /\ applied = FALSE

\* one call of the function named by arg.fn
ApplyJoinFunction ==
    /\ ~applied
    /\ res' =
          CASE arg.fn = "tableJoinReplacePlaceholder" ->
                   tableJoinReplacePlaceholder(arg.right, arg.pname, arg.left)
            [] arg.fn = "whenGetStream" ->
                   whenGetStream(StreamJoin(arg.left, arg.right), arg.pname, arg.joinArg)
            [] arg.fn = "combineStreamCommand" ->
                   combineStreamCommand(arg.left, [table |-> arg.right])
            [] arg.fn = "filterTableJoin" -> filterTableJoin(arg.right, arg.left)
            [] arg.fn = "arrayFilterTableJoin" -> arrayFilterTableJoin(arg.right, arg.left)
            [] arg.fn = "addArrayJoin" -> addArrayJoin(arg.left, arg.right)
    /\ applied' = TRUE
    /\ UNCHANGED <<loopFrame, arg>>

SpecJoin == InitJoin /\ [][ApplyJoinFunction]_vars

\* ------------------------------------------------------------------
\* ast_manip.js: makeArgMaxMinTable
\* ------------------------------------------------------------------
\* how many operators are wrapped around the query handed to
\* makeArgMaxMinTable
MaxWrap == 2

IndexTable(table, schema) == [type |-> "Index", table |-> table, schema |-> schema]

\* the schema of the query: schema.out holds the output p with its type, or
\* does not hold it
SortSchemas ==
    [no_filter : {FALSE}, is_list : BOOLEAN,
     out : { {}, { <<"p", "Number">> }, { <<"p", "String">> } }]
SortFilters ==
    ComplexFilters \cup { Atom("p", ">=", FilterValue), Atom("id", "==", FilterValue),
                          NotExpr(Atom("p", "==", FilterValue)) }

\* a filter, a projection, or an index of a sort around a table keep its schema
RECURSIVE SortableTables(_)
SortableTables(d) ==
    IF d = 0 THEN { [type |-> "Invocation", schema |-> s] : s \in SortSchemas }
    ELSE LET inner == SortableTables(d - 1)
         IN  inner
                \cup { FilterTable(t, f, t.schema) : t \in inner, f \in SortFilters }
                \cup { ProjectionTable(t, t.schema) : t \in inner }
                \cup { IndexTable(SortTable(t, t.schema), t.schema) : t \in inner }

makeArgMaxMinTable(table, pname, direction) ==
    IF <<pname, "Number">> \notin table.schema.out THEN NullTable
    ELSE IF ~table.schema.is_list \/ table.type = "Index" THEN NullTable
    ELSE IF hasUniqueFilter(table) THEN NullTable
    ELSE IF \E filter \in iterateFilters(table) :
                \E atom \in iterateFields(filter) : atom.name = pname
    THEN NullTable
    ELSE IndexTable([type |-> "Sort", table |-> table, field |-> pname,
                     direction |-> direction, schema |-> table.schema],
                    table.schema)

InitArgMaxMin ==
    /\ LoopNotStarted
    /\ arg \in [table : SortableTables(MaxWrap), pname : {"p"},
                direction : {"asc", "desc"}]
    /\ res = <<>>
    /\ applied = FALSE

ApplyMakeArgMaxMinTable ==
    /\ ~applied
    /\ res' = makeArgMaxMinTable(arg.table, arg.pname, arg.direction)
    /\ applied' = TRUE
    /\ UNCHANGED <<loopFrame, arg>>

SpecArgMaxMin == InitArgMaxMin /\ [][ApplyMakeArgMaxMinTable]_vars

\* ------------------------------------------------------------------
\* ast_manip.js: mergeSchemas
\* ------------------------------------------------------------------
\* how many arguments a schema handed to mergeSchemas declares
MaxArgs == 2

ArgNames == {"x", "y"}
ArgDefs == [name : ArgNames, type : {"String", "Number"}]
\* the arguments of a schema, in declaration order, no name declared twice
ArgLists ==
    { s \in UNION { [1..n -> ArgDefs] : n \in 0..MaxArgs } :
        \A i, j \in DOMAIN s : s[i].name = s[j].name => i = j }
Signatures == [args : ArgLists, is_list : BOOLEAN, is_monitorable : BOOLEAN]
\* the join argument: a name, '' (filterTableJoin) or null (addArrayJoin)
PassignNames == {"x", "", "null"}

mergeSchemas(functionType, lhsSchema, rhsSchema, passign) ==
    LET fromRhs == SelectSeq(rhsSchema.args, LAMBDA a : a.name # passign)
        newArgNames == { fromRhs[i].name : i \in DOMAIN fromRhs }
        fromLhs == SelectSeq(lhsSchema.args, LAMBDA a : a.name \notin newArgNames)
    IN  [functionType |-> functionType,
         args |-> fromRhs \o fromLhs,
         is_list |-> lhsSchema.is_list \/ rhsSchema.is_list,
         is_monitorable |-> lhsSchema.is_monitorable /\ rhsSchema.is_monitorable]

InitMergeSchemas ==
    /\ LoopNotStarted
    /\ arg \in [functionType : {"query"}, lhs : Signatures, rhs : Signatures,
                passign : PassignNames]
    /\ res = <<>>
    /\ applied = FALSE

ApplyMergeSchemas ==
    /\ ~applied
    /\ res' = mergeSchemas(arg.functionType, arg.lhs, arg.rhs, arg.passign)
    /\ applied' = TRUE
    /\ UNCHANGED <<loopFrame, arg>>

SpecMergeSchemas == InitMergeSchemas /\ [][ApplyMergeSchemas]_vars

\* ------------------------------------------------------------------
\* ast_manip.js: the nodes a transform receives, before and after the call
\* (sayProjectionProgram, addFilter)
\* ------------------------------------------------------------------
\* how many fields a projection handed to sayProjectionProgram selects
MaxProjArgs == 2

ProjectionFields == {"name", "picture_url", "p"}
ProjectionArgLists ==
    { s \in UNION { [1..n -> ProjectionFields] : n \in 1..MaxProjArgs } :
        \A i, j \in DOMAIN s : s[i] = s[j] => i = j }
\* a query with one output or with three
OutputTables ==
    { [type |-> "Invocation", schema |-> [no_filter |-> FALSE, out |-> o]] :
        o \in { {"name"}, ProjectionFields } }
ProjectedTables ==
    { [type |-> "Projection", table |-> t, args |-> a, schema |-> t.schema] :
        t \in OutputTables, a \in ProjectionArgLists }
NullProgram == [type |-> "null"]
makeProgram(table) == [type |-> "Program", table |-> table]

\* the program returned, and the node proj as the call leaves it
sayProjectionProgram(options, proj) ==
    IF proj.type = "Projection"
    THEN IF Len(proj.args) = 1 /\ proj.args[1] = "picture_url"
         THEN [program |-> NullProgram, proj |-> proj]
         ELSE IF Cardinality(proj.table.schema.out) = 1
         THEN [program |-> NullProgram, proj |-> proj]
         ELSE IF ~options.projection
         THEN [program |-> NullProgram, proj |-> proj]
         ELSE IF \E i \in DOMAIN proj.args : proj.args[i] = "name"
         THEN IF Len(proj.args) = 1
              THEN [program |-> makeProgram(proj.table), proj |-> proj]
              ELSE LET modified ==
                        [proj EXCEPT !.args = SelectSeq(proj.args, LAMBDA a : a # "name")]
                   IN  [program |-> makeProgram(modified), proj |-> modified]
         ELSE [program |-> makeProgram(proj), proj |-> proj]
    ELSE [program |-> makeProgram(proj), proj |-> proj]

\* arg.node is the node object handed to the call, arg.before its value at
\* the time of the call
InitTransform ==
    /\ LoopNotStarted
    /\ \E node \in OutputTables \cup ProjectedTables :
          arg \in [node : {node}, before : {node},
                   options : [projection : BOOLEAN, turking : BOOLEAN,
                              multifilters : BOOLEAN],
                   filter : { Atom("id", "==", FilterValue), Atom("p", ">=", FilterValue) }]
    /\ res = <<>>
    /\ applied = FALSE

ApplySayProjectionProgram ==
    /\ ~applied
    /\ LET call == sayProjectionProgram(arg.options, arg.node)
       IN  /\ res' = call.program
           /\ arg' = [arg EXCEPT !.node = call.proj]
    /\ applied' = TRUE
    /\ UNCHANGED loopFrame

\* addFilter writes no_filter on a clone of the schema and builds new nodes
ApplyAddFilterToNode ==
    /\ ~applied
    /\ res' = addFilter(arg.node, arg.filter, arg.options, FALSE)
    /\ applied' = TRUE
    /\ UNCHANGED <<loopFrame, arg>>

NextTransform == ApplySayProjectionProgram \/ ApplyAddFilterToNode

SpecTransform == InitTransform /\ [][NextTransform]_vars

\* ------------------------------------------------------------------
\* csqa-converter.js: set-based questions
\* ------------------------------------------------------------------
\* how many triples the compound active set of a set-based question holds
MaxTriples == 2

\* a triple [subject, relation, object]; "c" stands for the domain type
\* (c<domain>) in place of an entity
TripleSubjects == {"c", "Q1", "Q2"}
TripleObjects == {"c", "Q3"}
Triples == [subject : TripleSubjects, relation : {"P1", "P2"}, object : TripleObjects]
\* activeSet[0] cut in triples: the assertion of line 149 wants more than one
CompoundActiveSets == UNION { [1..n -> Triples] : n \in 2..MaxTriples }
SetOps == {1, 2, 3}

argnameFromLabel(relation) == IF relation = "P1" THEN "country" ELSE "occupation"

NullPart == [type |-> "null"]
Thrown == [type |-> "throw"]

generateFilter(includeEntityValue, param, value) ==
    IF param = "id"
    THEN IF includeEntityValue
         THEN Atom("id", "==", [kind |-> "Entity", v |-> value])
         ELSE Atom("id", "=~", [kind |-> "String", v |-> value])
    ELSE Atom(param, "contains", [kind |-> "Entity", v |-> value])

\* [projection, filter] of one triple, or Thrown; a projection is null, a
\* filter or a list of names
processOneActiveSet(includeEntityValue, triple) ==
    LET subject == triple.subject
        relation == argnameFromLabel(triple.relation)
        object == triple.object
    IN  IF subject # "c" /\ object = "c"
        THEN [projection |-> [type |-> "list", names |-> <<[type |-> "name", name |-> relation]>>],
              filter |-> generateFilter(includeEntityValue, "id", subject)]
        ELSE IF subject = "c" /\ object # "c"
        THEN [projection |-> NullPart,
              filter |-> generateFilter(includeEntityValue, relation, object)]
        ELSE IF subject # "c" /\ object # "c"
        THEN [projection |-> generateFilter(includeEntityValue, relation, object),
              filter |-> generateFilter(includeEntityValue, "id", subject)]
        ELSE Thrown

\* projections.flat(): the names of the lists, the other entries as they are
RECURSIVE flat(_)
flat(projections) ==
    IF projections = <<>> THEN <<>>
    ELSE (IF Head(projections).type = "list" THEN Head(projections).names
          ELSE <<Head(projections)>>) \o flat(Tail(projections))

\* [...new Set(list)]: the first occurrence of every entry, in order
RECURSIVE uniqueEntries(_)
uniqueEntries(list) ==
    IF list = <<>> THEN <<>>
    ELSE LET front == uniqueEntries(SubSeq(list, 1, Len(list) - 1))
             last == list[Len(list)]
         IN  IF \E i \in DOMAIN front : front[i] = last THEN front
             ELSE Append(front, last)

\* subjects is a Set: subjects.length is undefined and undefined > 1 is false
processOneActiveSetWithSetOp(includeEntityValue, triples, setOp) ==
    LET parts == [i \in DOMAIN triples |-> processOneActiveSet(includeEntityValue, triples[i])]
        projections == [i \in DOMAIN triples |-> parts[i].projection]
        filters == [i \in DOMAIN triples |-> parts[i].filter]
    IN  IF \E i \in DOMAIN triples : parts[i] = Thrown THEN Thrown
        ELSE IF projections[1].type = "list"
        THEN [projection |-> [type |-> "list", names |-> uniqueEntries(flat(projections))],
              filter |-> filters[1]]
        ELSE IF setOp = 1 THEN [projection |-> NullPart, filter |-> OrExpr(filters)]
        ELSE IF setOp = 2 THEN [projection |-> NullPart, filter |-> AndExpr(filters)]
        ELSE IF setOp = 3
        THEN IF Len(filters) # 2 THEN Thrown
             ELSE [projection |-> NullPart,
                   filter |-> AndExpr(<<filters[1], NotExpr(filters[2])>>)]
        ELSE Thrown

\* the program returned and the count added to _unsupportedCounter.setOp
setBasedQuestion(includeEntityValue, triples, setOpChoice) ==
    LET pair == processOneActiveSetWithSetOp(includeEntityValue, triples, setOpChoice)
        filterTable == [type |-> "Filter", table |-> [type |-> "Invocation"],
                        filter |-> pair.filter]
    IN  IF pair = Thrown THEN [program |-> Thrown, setOp |-> 0]
        ELSE IF pair.projection = NullPart /\ pair.filter = NullPart
        THEN [program |-> NullPart, setOp |-> 1]
        ELSE IF pair.projection.type = "list" /\ Len(pair.projection.names) > 0
        THEN [program |-> [type |-> "Projection", table |-> filterTable,
                           args |-> pair.projection.names],
              setOp |-> 0]
        ELSE [program |-> filterTable, setOp |-> 0]

InitSetBased ==
    /\ LoopNotStarted
    /\ arg \in [includeEntityValue : BOOLEAN, triples : CompoundActiveSets,
                setOpChoice : SetOps]
    /\ res = <<>>
    /\ applied = FALSE

ApplySetBasedQuestion ==
    /\ ~applied
    /\ res' = setBasedQuestion(arg.includeEntityValue, arg.triples, arg.setOpChoice)
    /\ applied' = TRUE
    /\ UNCHANGED <<loopFrame, arg>>

SpecSetBased == InitSetBased /\ [][ApplySetBasedQuestion]_vars

\* ------------------------------------------------------------------
\* DialogueLoop.ask and askChoices (legacy scripted questions)
\* ------------------------------------------------------------------
\* the longest list of choices handed to askChoices
MaxChoices == 2
\* how many replies of the user one question sees
MaxReplies == 2

UICommands == {"STOP", "NEVERMIND", "DEBUG", "WAKEUP"}
AskCategories == {"PhoneNumber", "Location", "Time"}
\* analyzed.answer: null, a number (a choice), or a value with its type
AskAnswers ==
    {NullValue}
        \cup { [kind |-> "number", v |-> n] : n \in (0 - 1)..MaxChoices }
        \cup { [kind |-> k, v |-> 1] : k \in {"tt:phone_number", "Location", "Time"} }
\* the result of _analyzeCommand: the special commands carry no answer
AskAnalyses ==
    { [type |-> t, answer |-> NullValue] : t \in UICommands \cup {"PARSE_FAILURE"} }
        \cup { [type |-> "IN_DOMAIN_COMMAND", answer |-> a] : a \in AskAnswers }
NoAnalysis == [type |-> "none", answer |-> NullValue]

\* ValueCategory.fromType
fromType(kind) ==
    CASE kind = "tt:phone_number" -> "PhoneNumber"
      [] kind = "Location" -> "Location"
      [] kind = "Time" -> "Time"
      [] OTHER -> "Generic"

\* the message of fail(); the CancellationError it throws is the caller's
\* next step
fail(expected) ==
    IF expected = "null"
    THEN <<"Sorry, I did not understand that. Can you rephrase it?">>
    ELSE <<"Sorry, I did not understand that.">>

lookingFor(expected) ==
    CASE expected = "null" -> <<"In fact, I did not ask for anything at all!">>
      [] expected = "MultipleChoice" -> <<"Could you choose one of the following?", "choices">>
      [] expected = "Time" -> <<"Could you give me a time of day?">>
      [] expected = "Location" -> <<"Could you give me a place?">>
      [] expected = "PhoneNumber" -> <<"Could you give me a phone number?">>
      [] expected = "Command" -> <<"I'm looking for a command.">>
      [] OTHER -> <<"In fact, I'm not even sure what I asked. Sorry!">>

\* the condition that ends the while loop of ask / askChoices
isExpectedAnswer(fn, expected, nchoices, answer) ==
    IF fn = "ask"
    THEN answer # NullValue /\ answer.kind # "number" /\ fromType(answer.kind) = expected
    ELSE answer # NullValue /\ answer.kind = "number" /\ answer.v >= 0 /\ answer.v < nchoices

\* arg is the frame of the call: its arguments, its position, the replies it
\* has read and the analysis of the last one
InitAsk ==
    /\ LoopNotStarted
    /\ arg \in [fn : {"ask"}, expected : AskCategories, nchoices : {0},
                pc : {"start"}, replies : {0}, analyzed : {NoAnalysis}]
            \cup [fn : {"askChoices"}, expected : {"MultipleChoice"},
                  nchoices : 1..MaxChoices,
                  pc : {"start"}, replies : {0}, analyzed : {NoAnalysis}]
    /\ res = <<>>
    /\ applied = FALSE

\* the question (and the choices) are sent and the expected category set
AskQuestion ==
    /\ arg.pc = "start"
    /\ sent' = <<"question">> \o [i \in 1..arg.nchoices |-> "choice"]
    /\ expecting' = arg.expected
    /\ raw' = (arg.fn = "ask" /\ arg.expected = "Location")
    /\ arg' = [arg EXCEPT !.pc = "wait"]
    /\ UNCHANGED <<loopVars, dialogueState, icon, stopped, mgrPromise, notifyQueue,
                   userInputQueue, welcomeVars, callerVars, ncalls,
                   nluCandidates, candidates, choice, analysisDone, res, applied>>

\* nextCommand and _analyzeCommand give the analysis a of the next reply;
\* one turn of the while loop, or its end
AskReply ==
    /\ arg.pc = "wait"
    /\ arg.replies < MaxReplies
    /\ \E a \in AskAnalyses :
          LET frame == [arg EXCEPT !.replies = @ + 1, !.analyzed = a]
              throws(origin) ==
                  /\ arg' = [frame EXCEPT !.pc = "thrown"]
                  /\ res' = [kind |-> "throw", code |-> "ECANCELLED", origin |-> origin]
                  /\ applied' = TRUE
              again ==
                  /\ arg' = frame
                  /\ UNCHANGED <<res, applied>>
          IN  IF isExpectedAnswer(arg.fn, arg.expected, arg.nchoices, a.answer)
              THEN /\ arg' = [frame EXCEPT !.pc = "returned"]
                   /\ res' = [kind |-> "return", answer |-> a.answer]
                   /\ applied' = TRUE
                   /\ sent' = <<>>
                   /\ UNCHANGED <<expecting, raw, wpc, wAwaited>>
              ELSE CASE a.type = "STOP" ->
                          /\ throws("stop")
                          /\ sent' = <<>>
                          /\ UNCHANGED <<expecting, raw, wpc, wAwaited>>
                     [] a.type = "NEVERMIND" ->
                          /\ throws("nevermind")
                          /\ sent' = <<"Sorry I couldn't help on that.">>
                          /\ UNCHANGED <<expecting, raw, wpc, wAwaited>>
                     [] a.type = "DEBUG" ->
                          /\ again
                          /\ sent' = <<"Current State">>
                          /\ UNCHANGED <<expecting, raw, wpc, wAwaited>>
                     [] a.type = "WAKEUP" ->
                          /\ again
                          /\ sent' = <<>>
                          /\ IF dialogueState = "null"
                             THEN /\ IF wpc = "idle"
                                     THEN wpc' = "policy" /\ wAwaited' = FALSE
                                     ELSE UNCHANGED <<wpc, wAwaited>>
                                  /\ expecting' = "Command"
                                  /\ raw' = FALSE
                             ELSE UNCHANGED <<expecting, raw, wpc, wAwaited>>
                     [] OTHER ->
                          \* fail() throws: lookingFor() is not reached
                          /\ throws("fail")
                          /\ sent' = fail(expecting)
                          /\ UNCHANGED <<expecting, raw, wpc, wAwaited>>
    /\ UNCHANGED <<loopVars, dialogueState, icon, stopped, mgrPromise, notifyQueue,
                   userInputQueue, wCancels, callerVars, ncalls,
                   nluCandidates, candidates, choice, analysisDone>>

\* reset() or stop() from outside cancel the wait of nextCommand
AskCancelWait ==
    /\ arg.pc = "wait"
    /\ arg' = [arg EXCEPT !.pc = "thrown"]
    /\ res' = [kind |-> "throw", code |-> "ECANCELLED", origin |-> "cancelWait"]
    /\ applied' = TRUE
    /\ UNCHANGED <<loopFrame>>

NextAsk == AskQuestion \/ AskReply \/ AskCancelWait \/ WelcomeNext

SpecAsk == InitAsk /\ [][NextAsk]_vars

\* ------------------------------------------------------------------
\* DatasetSplitter (a Writable stream in object mode)
\* ------------------------------------------------------------------
\* how many rows the input of the splitter holds
MaxRows == 2

\* a token of target_code: @kind.channel, or another word
CodeToken(at, kind) == [at |-> at, kind |-> kind]
TargetCodes ==
    { <<CodeToken(TRUE, "a")>>, <<CodeToken(FALSE, "now"), CodeToken(TRUE, "b")>> }
SplitterRows ==
    [preprocessed : {"s1", "s2"}, target_code : TargetCodes,
     flags : {"none", "synthetic", "augmented"}]
SplitterInputs == UNION { [1..n -> SplitterRows] : n \in 1..MaxRows }
\* the strategies whose key function is in this file
SPLIT_STRATEGIES == {"id", "raw-sentence"}

filterForDevices(set, code) ==
    \A i \in DOMAIN code : code[i].at => code[i].kind \in set

splitStrategy(strategy, row) ==
    IF strategy = "id" THEN "undefined" ELSE row.preprocessed

\* arg is the splitter and its surroundings: the options, the rows of the
\* input, how many of them _write was called for (pos), how often the
\* callback of each was invoked (acks), the two sets of keys, and the
\* split keys of the rows written to each output
InitSplitter ==
    /\ LoopNotStarted
    /\ arg \in [splitStrategy : SPLIT_STRATEGIES, forDevices : { {}, {"a"} },
                hasTest : BOOLEAN, rows : SplitterInputs,
                pos : {0}, acks : {<<>>}, devtestset : {{}}, trainset : {{}},
                train : {{}}, eval : {{}}, test : {{}}]
    /\ res = <<>>
    /\ applied = FALSE

\* the stream calls _write for the next row once the callback of the row
\* before was invoked; coin() is either outcome
Write ==
    /\ arg.pos < Len(arg.rows)
    /\ \A i \in DOMAIN arg.acks : arg.acks[i] >= 1
    /\ LET row == arg.rows[arg.pos + 1]
           splitKey == splitStrategy(arg.splitStrategy, row)
           called == [arg EXCEPT !.pos = @ + 1, !.acks = Append(@, 1)]
           toTrain == [called EXCEPT !.train = @ \cup {splitKey}]
           toEvalOrTest ==
               { [called EXCEPT !.eval = @ \cup {splitKey}] }
                   \cup (IF arg.hasTest
                         THEN { [called EXCEPT !.test = @ \cup {splitKey}] }
                         ELSE {})
       IN  IF arg.forDevices # {} /\ ~filterForDevices(arg.forDevices, row.target_code)
           THEN arg' = [arg EXCEPT !.pos = @ + 1, !.acks = Append(@, 0)]
           ELSE IF row.flags \in {"synthetic", "augmented"}
           THEN IF splitKey # "undefined" /\ splitKey \in arg.devtestset
                THEN arg' = called
                ELSE arg' = toTrain
           ELSE IF splitKey # "undefined" /\ splitKey \in arg.devtestset
           THEN arg' \in toEvalOrTest
           ELSE IF splitKey # "undefined" /\ splitKey \in arg.trainset
           THEN arg' = toTrain
           ELSE \/ \E out \in toEvalOrTest :
                      arg' = IF splitKey # "undefined"
                             THEN [out EXCEPT !.devtestset = @ \cup {splitKey}]
                             ELSE out
                \/ arg' = IF splitKey # "undefined"
                          THEN [toTrain EXCEPT !.trainset = @ \cup {splitKey}]
                          ELSE toTrain
    /\ res' = arg'.acks
    /\ applied' = TRUE
    /\ UNCHANGED loopFrame

SpecSplitter == InitSplitter /\ [][Write]_vars

\* ================================================================= claims
IsPrefix(s, t) == Len(s) <= Len(t) /\ SubSeq(t, 1, Len(s)) = s

\* a turn is in flight: the loop holds a queue item
InTurn == item # "none"

C2_NoFailureEndsLoop == (pc = "crashed" /\ errKind = "Error") => stopped

\* C3 (as stated): the cancellation injected by reset() never escapes _loop.
C3_ResetCancellationCaught ==
    ~(pc = "crashed" /\ errKind = "ECANCELLED" /\ errOrigin = "reset")

\* The loop waits in nextCommand on the user-input queue while a readiness
\* promise is pending: only the loop resolves that promise, and only a
\* caller that got past it can wake the loop.
LoopBlockedBehindPromise == pc = "wait_user" /\ mgrPromise = "pending"

\* C4 (as stated): a handleCommand that comes after a push that arrived
\* while the loop waits for a follow-up command gets past its wait on the
\* readiness promise.
C4_HandleCommandGetsThrough ==
    ~(LoopBlockedBehindPromise
        /\ \E c \in Callers : cop[c] = "handleCommand" /\ cpc[c] = "await")

\* C5 (as stated): stop() gets past its wait for the wait-point from every
\* state of the loop.
C5_StopGetsThrough ==
    ~(LoopBlockedBehindPromise
        /\ \E c \in Callers : cop[c] = "stop" /\ cpc[c] = "await")

\* Once the loop is blocked behind a pending promise it stays so, and no
\* suspended caller is ever released.
BlockedForever ==
    [][LoopBlockedBehindPromise =>
          /\ LoopBlockedBehindPromise'
          /\ \A c \in Callers : cpc[c] = "await" => cpc'[c] = "await"]_vars

TransportError(e) ==
    \/ e.t = "string" /\ e.s \in {"EHOSTUNREACH", "ETIMEDOUT"}
    \/ e.t = "number" /\ (e.n = 404 \/ e.n >= 500)

TransportApology(e) ==
    IF e.t = "string"
    THEN "Sorry, I cannot contact the Almond service. Please check your Internet connection and try again later."
    ELSE "Sorry, there seems to be a problem with the Almond service at the moment. Please try again later."

C8_ChoiceNotInfiniteFailure ==
    analysisDone =>
        /\ Len(candidates) >= 1
        /\ choice \in 1..Len(candidates)
        /\ ~(candidates[choice].parsed = "failed" /\ candidates[choice].score = "Infinity")

\* C8 witness: every candidate of the NLU answer fails to parse and has
\* score 'Infinity'; the appended candidate is chosen
C8_Witness ==
    /\ analysisDone
    /\ Len(nluCandidates) = 2
    /\ \A i \in 1..2 : nluCandidates[i] = [code |-> "unparsable", score |-> "Infinity"]
    /\ choice = 3

Parses(c) == c.code # "unparsable"

C10_NoActionKeepsLoop ==
    ~(pc = "crashed" /\ errKind = "ECANCELLED" /\ errOrigin = "fail_policy")

\* the classification the claim gives for a special intent type
C11_TypeOfIntent(t) ==
    CASE t = "stop" -> "STOP"
      [] t = "nevermind" -> "NEVERMIND"
      [] t = "wakeup" -> "WAKEUP"
      [] t = "debug" -> "DEBUG"
      [] t = "failed" -> "PARSE_FAILURE"
      [] OTHER -> "IN_DOMAIN_COMMAND"

\* C11: the classification of a parsed input is the fixed mapping of the
\* five special intents, IN_DOMAIN_COMMAND for everything else; the answer
\* is a Boolean for yes/no, the intent's value for answer/choice, null
\* otherwise; parsed is non-null exactly for IN_DOMAIN_COMMAND;
\* OUT_OF_DOMAIN_COMMAND and IGNORE never appear.
C11_ClassifierMapping ==
    applied =>
        LET in == arg.parsed
            special == in.cls = "ControlCommand" /\ in.intent = "special"
        IN  /\ res.type = IF special THEN C11_TypeOfIntent(in.type) ELSE "IN_DOMAIN_COMMAND"
            /\ res.type \notin {"OUT_OF_DOMAIN_COMMAND", "IGNORE"}
            /\ (special /\ in.type = "yes") => res.answer = [kind |-> "Boolean", v |-> 1]
            /\ (special /\ in.type = "no") => res.answer = [kind |-> "Boolean", v |-> 0]
            /\ (in.cls = "ControlCommand" /\ in.intent \in {"answer", "choice"}) =>
                  res.answer = in.value
            /\ ~(in.cls = "ControlCommand"
                  /\ (in.intent \in {"answer", "choice"} \/ (special /\ in.type \in {"yes", "no"}))) =>
                  res.answer = NullValue
            /\ (res.parsed # NullInput) <=> (res.type = "IN_DOMAIN_COMMAND")
            /\ res.parsed # NullInput => res.parsed = in

\* C11 witness: the intent `no` is classified IN_DOMAIN_COMMAND with the
\* answer false and keeps its parsed input
C11_Witness ==
    /\ applied
    /\ arg.parsed.intent = "special"
    /\ arg.parsed.type = "no"
    /\ res.type = "IN_DOMAIN_COMMAND"
    /\ res.answer.kind = "Boolean"
    /\ res.parsed = arg.parsed

\* the filter constrains a unique argument of the schema, at any depth
RECURSIVE C12_OnUniqueArgument(_)
C12_OnUniqueArgument(filter) ==
    IF filter.type \in {"And", "Or"}
    THEN \E i \in DOMAIN filter.operands : C12_OnUniqueArgument(filter.operands[i])
    ELSE IF filter.type = "Not" THEN C12_OnUniqueArgument(filter.expr)
    ELSE filter.type = "Atom" /\ filter.name \in UniqueArgs

C12_UniqueApplied ==
    \E i \in DOMAIN arg.past : C12_OnUniqueArgument(arg.past[i])

\* C12: once addFilter has applied a filter on a unique argument, every later
\* addFilter call on the result (bare or wrapped in a projection, with any
\* filter, any flags and any forceAdd) returns null
C12_UniqueFilterIsFinal ==
    (applied /\ C12_UniqueApplied) => res = NullTable

C12_Witness ==
    /\ applied
    /\ C12_UniqueApplied
    /\ arg.forceAdd
    /\ arg.table.type = "Projection"
    /\ arg.table.table.type = "Filter"
    /\ res = NullTable

C13_AllNull == res.and = NullFilter /\ res.or = NullFilter /\ res.but = NullFilter

C13_MakeFilterSucceeds(i) ==
    LET vtype == IF arg.op = "contains" THEN TypeArray(arg.values[i].type)
                 ELSE arg.values[i].type
        key == ParamKey(arg.param.name, vtype)
    IN  key \in arg.options.out /\ key \notin arg.options.blacklist

\* C13: makeAndFilter, makeOrFilter and makeButFilter return null when the
\* number of values is not two and when the two values have the same name;
\* a non-null result requires makeFilter to succeed on both values
C13_PairFilters ==
    applied =>
        /\ Len(arg.values) # 2 => C13_AllNull
        /\ (Len(arg.values) = 2 /\ arg.values[1].name = arg.values[2].name) => C13_AllNull
        /\ \A fn \in {"and", "or", "but"} :
              res[fn] # NullFilter =>
                  /\ Len(arg.values) = 2
                  /\ C13_MakeFilterSucceeds(1)
                  /\ C13_MakeFilterSucceeds(2)

C13_Witness ==
    /\ applied
    /\ Len(arg.values) = 2
    /\ arg.negate
    /\ res.and.type = "Not"
    /\ res.or.type = "Not"
    /\ res.but.type = "And"

\* the key param.name + type of value, the type wrapped as an array type when
\* the operator is contains
C14_Key ==
    <<arg.param.name>>
        \o (IF arg.op = "contains" THEN <<"Array">> ELSE <<>>)
        \o arg.value.type

C14_ExpectedAtom ==
    [type |-> "Atom", name |-> arg.param.name, operator |-> arg.op, value |-> arg.value]

\* C14: makeFilter returns null when the key is not a declared output or is
\* blacklisted; otherwise the atom over param.name, the operator and the
\* value, wrapped in a negation exactly when negate is true
C14_MakeFilter ==
    applied =>
        IF C14_Key \notin arg.options.out \/ C14_Key \in arg.options.blacklist
        THEN res = NullFilter
        ELSE IF arg.negate
        THEN res = [type |-> "Not", expr |-> C14_ExpectedAtom]
        ELSE res = C14_ExpectedAtom

C14_Witness ==
    /\ applied
    /\ arg.op = "contains"
    /\ arg.negate
    /\ arg.options.blacklist # {}
    /\ res.type = "Not"
    /\ res.expr.name = arg.param.name

\* how many primitives of the stream or table invoke the function
RECURSIVE C15_Occurrences(_, _)
C15_Occurrences(node, function) ==
    IF node.type = "Invocation"
    THEN IF <<node.kind, node.channel>> = function THEN 1 ELSE 0
    ELSE IF node.type \in {"Timer", "AtTimer"} THEN 0
    ELSE IF node.type \in {"Filter", "Monitor"} THEN C15_Occurrences(node.table, function)
    ELSE IF node.type = "EdgeFilter" THEN C15_Occurrences(node.stream, function)
    ELSE IF node.type = "Join"
    THEN C15_Occurrences(node.lhs, function) + C15_Occurrences(node.rhs, function)
    ELSE C15_Occurrences(node.stream, function) + C15_Occurrences(node.table, function)

\* C15: checkNotSelfJoinStream returns null exactly when some function name
\* occurs at least twice among the primitives of the stream, and otherwise
\* returns the stream unchanged
C15_NullIffNameTwice ==
    applied =>
        IF \E f \in Functions : C15_Occurrences(arg.stream, f) >= 2
        THEN res = NullStream
        ELSE res = arg.stream

\* the repeated name is separated by another name and sits under a monitor
\* and a join
C15_Witness ==
    /\ applied
    /\ arg.stream.type = "StreamJoin"
    /\ arg.stream.stream.type = "Monitor"
    /\ arg.stream.stream.table.type = "Join"
    /\ findFunctionNameStream(arg.stream) = << <<"a", "f">>, <<"b", "f">>, <<"a", "f">> >>
    /\ res = NullStream

C16_NameIsNoResult ==
    \A i \in DOMAIN arg.ctx.aux.results : arg.ctx.aux.results[i] # arg.name

\* C16: accepting a list proposal by a name that is the id of no result
\* returns false and gives no new dialogue state; the context with its
\* current table and its proposal is unchanged
C16_UnknownNameRejected ==
    (applied /\ C16_NameIsNoResult) =>
        /\ res.value = "false"
        /\ "state" \notin DOMAIN res
        /\ res.ctx = arg.ctx

C16_Witness ==
    /\ applied
    /\ C16_NameIsNoResult
    /\ arg.fn = "positiveListProposalReply"
    /\ Len(arg.ctx.aux.results) = 2
    /\ arg.name.kind = "Entity"
    /\ arg.acceptedAction = NullAction
    /\ ~arg.mustHaveAction
    /\ res.value = "false"

\* C17: whenever stop(), reset() or handleCommand() goes on past its wait on
\* the readiness promise, _mgrPromise is null, so that its assertion holds
C17_AssertionHolds ==
    \A c \in Callers : cpc[c] # "assert"

C18_TerminalAndNothingExpected ==
    /\ policyResult.act \in {"sys_end", "sys_action_success"}
    /\ policyResult.expect = "null"

C19_AtomOf(filter) ==
    IF filter.type = "Not" THEN filter.expr ELSE filter

\* the constraints of the existing filter: the filter itself, or the
\* operands of a conjunction
C19_Existing(filter) ==
    IF filter.type = "And"
    THEN { C19_AtomOf(filter.operands[i]) : i \in DOMAIN filter.operands }
    ELSE { C19_AtomOf(filter) }

C19_Clash(old, new) ==
    /\ old.type = "Atom"
    /\ new.type = "Atom"
    /\ old.name = new.name
    /\ \/ old.operator = new.operator
       \/ old.operator \in {"==", "in_array"}
       \/ new.operator \in {"==", "in_array"}

\* C19 (as stated): on a table that already has a filter, addFilter returns
\* null when the new constraint and an existing one, either of them possibly
\* negated, are on the same argument with the same operator or with == or
\* in_array in one of them
C19_ClashingFilterRejected ==
    (/\ applied
     /\ arg.table.type = "Filter"
     /\ \E old \in C19_Existing(arg.table.filter) : C19_Clash(old, C19_AtomOf(arg.filter)))
    => res = NullTable

\* the function names of the primitives of a table or stream
RECURSIVE C20_Names(_)
C20_Names(node) ==
    IF node.type = "Invocation" THEN { <<node.kind, node.channel>> }
    ELSE IF node.type \in {"Filter", "Projection", "Monitor"} THEN C20_Names(node.table)
    ELSE {}

\* C20 (as stated): a join-building function returns null when the same
\* function name occurs on both sides of the join it builds
C20_NoSelfJoinBuilt ==
    (applied /\ C20_Names(arg.left) \cap C20_Names(arg.right) # {})
        => res = NullTable

\* the table expression holds an index at some depth
RECURSIVE C21_HasIndex(_)
C21_HasIndex(table) ==
    IF table.type = "Invocation" THEN FALSE
    ELSE table.type = "Index" \/ C21_HasIndex(table.table)

\* the names a filter constrains, also inside a disjunction
RECURSIVE C21_Names(_)
C21_Names(filter) ==
    IF filter.type \in {"And", "Or"}
    THEN UNION { C21_Names(filter.operands[i]) : i \in DOMAIN filter.operands }
    ELSE IF filter.type = "Not" THEN C21_Names(filter.expr)
    ELSE IF filter.type = "Atom" THEN {filter.name}
    ELSE {}

\* the names constrained by the filters of the table, at every depth
RECURSIVE C21_Filtered(_)
C21_Filtered(table) ==
    IF table.type = "Invocation" THEN {}
    ELSE IF table.type = "Filter"
    THEN C21_Names(table.filter) \cup C21_Filtered(table.table)
    ELSE C21_Filtered(table.table)

\* C21 (as stated): makeArgMaxMinTable returns null when the output is
\* missing or not numeric, the table is no list, holds an index, or holds a
\* filter on a unique argument or on pname, wherever the index or filter sits
C21_ArgMaxRejected ==
    (/\ applied
     /\ \/ <<arg.pname, "Number">> \notin arg.table.schema.out
        \/ ~arg.table.schema.is_list
        \/ C21_HasIndex(arg.table)
        \/ C21_Filtered(arg.table) \cap ({"id"} \cup {arg.pname}) # {})
    => res = NullTable


C22_ArgsOf(schema) == { schema.args[i] : i \in DOMAIN schema.args }

\* C22 (as stated): the merged schema declares no name twice, carries the
\* right-hand argument for every name of both schemas, and declares no
\* argument named passign, from whichever side that name comes
C22_MergedSchema ==
    applied =>
        /\ \A i, j \in DOMAIN res.args : res.args[i].name = res.args[j].name => i = j
        /\ \A r \in C22_ArgsOf(arg.rhs) :
              (\E l \in C22_ArgsOf(arg.lhs) : l.name = r.name) => r \in C22_ArgsOf(res)
        /\ \A a \in C22_ArgsOf(res) : a.name # arg.passign


\* C23 (as stated): after a call to a transform function the node it
\* received (its args, filter and schema flags) equals its value before the
\* call
C23_InputUnmodified == applied => arg.node = arg.before


\* the action the reply goes on with: the supplied one, else the proposed one
C24_Accepted ==
    IF arg.acceptedAction = NullAction THEN arg.ctx.aux.action ELSE arg.acceptedAction

C24_AcceptedState(action) ==
    StateReply(arg.ctx, [dialogueAct |-> "execute", table |-> "query",
                         filter |-> arg.name, action |-> action,
                         confirm |-> "accepted"])

C25_MixedSubjectsRejected ==
    (/\ applied
     /\ \E i, j \in DOMAIN arg.triples : arg.triples[i].subject # arg.triples[j].subject)
    => (res.program = NullPart /\ res.setOp = 1)


\* C26 (as stated): once the loop waits for user input after a WAKEUP, the
\* welcome that the WAKEUP started changes neither the expected category
\* (kept at Command) nor the dialogue state (null)
C26_WelcomeSettledBeforeWaiting ==
    [][(pc = "wait_user" /\ ~wAwaited /\ WelcomeNext)
        => (expecting' = expecting /\ dialogueState' = dialogueState)]_vars


\* C27 (as stated): a reply that is neither a valid answer nor a special
\* command sends the failure message and the lookingFor hint and leaves the
\* question waiting for another reply; the question is abandoned only by
\* stop, nevermind or a reset from outside; the value returned has the
\* expected category
C27_InvalidReplyAsksAgain ==
    /\ (/\ arg.analyzed # NoAnalysis
        /\ arg.analyzed.type \notin UICommands
        /\ ~isExpectedAnswer(arg.fn, arg.expected, arg.nchoices, arg.analyzed.answer))
       => /\ arg.pc = "wait"
          /\ \E e \in Expects \cup AskCategories \cup {"MultipleChoice"} :
                sent = fail(e) \o lookingFor(e)
    /\ arg.pc = "thrown" => res.origin \in {"stop", "nevermind", "cancelWait"}
    /\ arg.pc = "returned" =>
          isExpectedAnswer(arg.fn, arg.expected, arg.nchoices, res.answer)


\* C28 (as stated): no split key is written both to the train output and to
\* the eval or test output, and _trainset and _devtestset are disjoint
C28_NoKeyAcrossSplit ==
    applied =>
        /\ (arg.train \cap (arg.eval \cup arg.test)) \ {"undefined"} = {}
        /\ arg.trainset \cap arg.devtestset = {}

\* C29 (as stated): the callback of every row handed to _write is invoked
\* exactly once, rows dropped by the forDevices filter included
C29_EveryRowAcknowledged ==
    applied => \A i \in DOMAIN arg.acks : arg.acks[i] = 1


\* the filter is true on a row; a row is the set of atoms that are true on it
RECURSIVE C30_Holds(_, _)
C30_Holds(filter, row) ==
    IF filter.type = "And"
    THEN \A i \in DOMAIN filter.operands : C30_Holds(filter.operands[i], row)
    ELSE IF filter.type = "Or"
    THEN \E i \in DOMAIN filter.operands : C30_Holds(filter.operands[i], row)
    ELSE IF filter.type = "Not" THEN ~C30_Holds(filter.expr, row)
    ELSE filter \in row

C30_Rows ==
    SUBSET { Atom(arg.param.name, arg.op, arg.values[i]) : i \in DOMAIN arg.values }

\* C30 (as stated): with negate = true makeOrFilter and makeAndFilter build a
\* filter that is true on exactly the rows where the filter built with
\* negate = false is false
C30_NegateIsNegation ==
    (applied /\ arg.negate /\ res.or # NullFilter /\ res.and # NullFilter)
    => \A row \in C30_Rows :
          /\ C30_Holds(res.or, row)
                <=> ~C30_Holds(makeOrFilter(arg.options, arg.param, arg.op,
                                            arg.values, FALSE), row)
          /\ C30_Holds(res.and, row)
                <=> ~C30_Holds(makeAndFilter(arg.options, arg.param, arg.op,
                                             arg.values, FALSE), row)

====
